---------------------------- MODULE Spec2Model ----------------------------
(***************************************************************************)
(* A model of the actors-cpp runtime: the mailbox (BQueue), the message     *)
(* envelope, Actor::send / fast_send / reply / terminate, the dispatch      *)
(* under the per-actor mutex, the worker loop Actor::operator() and the     *)
(* Group multiplexer.  Threads are modelled with a call stack each; every   *)
(* action is one atomic section of the C++ code.                            *)
(***************************************************************************)
EXTENDS Integers, Sequences, FiniteSets, TLC

(***************************************************************************)
(* Bounds of the model.                                                     *)
(***************************************************************************)
\* messages that are ever allocated (new Message) in one run
MaxMsgs == 3
\* re-sends of an already sent message that the external thread attempts
MaxResend == 1

(***************************************************************************)
(* Program constants.                                                       *)
(***************************************************************************)
ACTOR_BQUEUE_SIZE == 64
StartId == 0
ShutdownId == 5
\* sysconf(_SC_NPROCESSORS_ONLN): the number of cores of the machine
NumCores == 2
AppId == 100

(***************************************************************************)
(* The scenario: one plain actor A with its own worker thread, one Group G  *)
(* with the members M1, M2 (insertion order) driven by G's worker thread,   *)
(* and one further thread X (a main thread or a Timer thread) that uses the *)
(* public API from outside.  Mgr is the Manager, an Actor for which nothing *)
(* spawns a worker thread.                                                  *)
(***************************************************************************)
Null == "null"
members == [G |-> <<"M1", "M2">>]
GroupOf == [A |-> Null, G |-> Null, M1 |-> "G", M2 |-> "G", Mgr |-> Null]
Actors == DOMAIN GroupOf
Queued == {"A", "G"}
Threads == Queued \cup {"X"}

is_group(a) == a \in DOMAIN members
is_part_of_group(a) == GroupOf[a] # Null

VARIABLES
  msgs,      \* the heap of messages: a sequence of envelopes
  ginfo,     \* per message, what the model remembers about its use (history)
  msgq,      \* per queued actor its BQueue: [cb, overflow_]
  act,       \* per actor the fields of Actor
  fast_send_mutex, \* per actor the thread that holds the mutex, or Null
  stack,     \* per thread its call stack, innermost frame last
  fatal,     \* Null, or the assertion that aborted the process
  hlog,      \* per actor the handler invocations, in order (history)
  hooks,     \* per actor how often init() and end() ran (history)
  cnt,       \* counters of send calls (history)
  scn,       \* the scenario: which threads run and whom user code addresses
  mgr,       \* the Manager: its registries and the threads it spawned
  rem,       \* the remote layer: Senders, Receivers, sockets, proxies
  bq,        \* one BQueue with its producer and its consumer
  hc,        \* one actor's handler table, handler cache and negative flags
  rcv        \* one ZmqReceiver: running_, its mailbox, its worker, a terminate() caller

vars == <<msgs, ginfo, msgq, act, fast_send_mutex, stack, fatal, hlog, hooks, cnt, scn, mgr, rem, bq, hc, rcv>>

(***************************************************************************)
(* Message: the envelope of Message.hpp, plus the number of deletes.        *)
(***************************************************************************)
NewMessage(id) ==
  [id |-> id, sender |-> Null, destination |-> Null,
   is_fast |-> FALSE, last |-> FALSE, frees |-> 0]

\* by, to, how, res: the thread that passed the message to the runtime, the
\* actor it was passed to, through which call, and what the call did;
\* tt: whether that actor's terminated flag was set when the call read it;
\* replied: the message the handler of this message passed to reply();
\* ret: what fast_send returned for it; pops: how often a worker popped it;
\* re, reto: the outcome and the target of a second send of the message
NoInfo ==
  [by |-> Null, to |-> Null, how |-> Null, res |-> Null, tt |-> FALSE,
   replied |-> 0, ret |-> 0, pops |-> 0, re |-> Null, reto |-> Null]

(***************************************************************************)
(* BQueue: a ring of capacity n and an overflow deque.                      *)
(***************************************************************************)
BQueue(n) == [cb |-> <<>>, overflow_ |-> <<>>, n |-> n]

BQEmpty(q) == q.cb = <<>> /\ q.overflow_ = <<>>

BQLength(q) == Len(q.cb) + Len(q.overflow_)

\* a push that overwrites the newest element of the ring
BQPushOver(q, x) ==
  [q EXCEPT !.cb = IF @ = <<>> THEN <<x>> ELSE SubSeq(@, 1, Len(@) - 1) \o <<x>>]

\* a push that looks at the ring only
BQPushRing(q, x) ==
  IF Len(q.cb) = q.n
    THEN [q EXCEPT !.overflow_ = Append(@, x)]
    ELSE [q EXCEPT !.cb = Append(@, x)]

BQPush(q, x) ==
  IF q.overflow_ # <<>> \/ Len(q.cb) = q.n
    THEN [q EXCEPT !.overflow_ = Append(@, x)]
    ELSE [q EXCEPT !.cb = Append(@, x)]

\* a pop that takes the newest element of the ring (pop_back for pop_front)
BQPopNewest(q) ==
  LET ret == IF q.cb # <<>> THEN q.cb[Len(q.cb)] ELSE Head(q.overflow_)
      q2  == IF q.cb # <<>> THEN [q EXCEPT !.cb = SubSeq(@, 1, Len(@) - 1)]
                            ELSE [q EXCEPT !.overflow_ = Tail(@)]
  IN  <<ret, q2.cb = <<>> /\ q2.overflow_ = <<>>, q2>>

\* precondition: ~BQEmpty(q).  The result is <<element, last, queue>>.
BQPop(q) ==
  LET ret == IF q.cb # <<>> THEN Head(q.cb) ELSE Head(q.overflow_)
      q2  == IF q.cb # <<>> THEN [q EXCEPT !.cb = Tail(@)]
                            ELSE [q EXCEPT !.overflow_ = Tail(@)]
  IN  <<ret, BQEmpty(q2), q2>>

BQContents(q) == q.cb \o q.overflow_

\* a BQueue<T>(n) on its own, with what was pushed and popped (history) and
\* whether its consumer is blocked in cv.wait
NewBQ(n) == [q |-> BQueue(n), pushed |-> <<>>, popped |-> <<>>, waiting |-> FALSE]


(***************************************************************************)
(* Call stacks.  A frame is one activation of a function of the runtime or  *)
(* of user code:                                                            *)
(*   loop  Actor::operator()            pmi  process_message_internal       *)
(*   fs    Actor::fast_send             fwd  Group::forward                 *)
(*   fan   Group::start_handler / shutdown_handler (sender is not the group)*)
(*   minit Manager::init                mend Manager::end                   *)
(*   h     a user handler (registered handler or process_message override)  *)
(*   ext   the code of the external thread                                  *)
(***************************************************************************)
Frame(k, a, m, pc) == [k |-> k, a |-> a, m |-> m, pc |-> pc, snd |-> Null, flag |-> FALSE, i |-> 0]

Top(t) == stack[t][Len(stack[t])]
SetTop(s, f) == [s EXCEPT ![Len(s)] = f]
PushF(s, f) == Append(s, f)
PopF(s) == SubSeq(s, 1, Len(s) - 1)

\* the stack after a return into it: Group::forward has nothing left to do
\* after the destination's dispatch and returns as well
Returned(s) == IF s # <<>> /\ s[Len(s)].k = "fwd" THEN PopF(s) ELSE s

Running(t) == fatal = Null /\ stack[t] # <<>>
At(t, k, pc) == Running(t) /\ Top(t).k = k /\ Top(t).pc = pc

(***************************************************************************)
(* Actor: the fields of Actor.hpp that the dispatch reads and writes.       *)
(***************************************************************************)
NewActor ==
  [terminated |-> FALSE, reply_to |-> Null, using_fast_send |-> FALSE,
   reply_message |-> 0, msg_cnt |-> 0,
   cache_by |-> <<>>]   \* the identities whose handler_cache entry or negative
                        \* flag is set, each with the thread that set it (history)

\* Actor::add_message_to_queue as reached from Actor::send: the queue that takes
\* a message sent to actor a
\* every actor's own mailbox
QueueOwn(a) == a

QueueOf(a) == IF is_part_of_group(a) THEN GroupOf[a] ELSE a

\* a send without the assertion on the message's destination
send_reuse(ms, qs, a, m, sender) ==
  IF act[a].terminated
    THEN [msgs |-> ms, msgq |-> qs, res |-> "dropped"]
  ELSE [msgs |-> [ms EXCEPT ![m] = [@ EXCEPT !.is_fast = FALSE, !.last = FALSE,
                                             !.sender = sender, !.destination = a]],
        msgq |-> [qs EXCEPT ![IF is_part_of_group(a) THEN GroupOf[a] ELSE a] = BQPush(@, m)],
        res  |-> "queued"]

\* a send without the test of the terminated flag
send_live(ms, qs, a, m, sender) ==
  IF ms[m].destination # Null
    THEN [msgs |-> ms, msgq |-> qs, res |-> "fatal"]
  ELSE [msgs |-> [ms EXCEPT ![m] = [@ EXCEPT !.is_fast = FALSE, !.last = FALSE,
                                             !.sender = sender, !.destination = a]],
        msgq |-> [qs EXCEPT ![IF is_part_of_group(a) THEN GroupOf[a] ELSE a] = BQPush(@, m)],
        res  |-> "queued"]

\* Actor::send(m, sender) on actor a, on the heap ms and the queues qs.
\* res is "dropped" (terminated), "fatal" (the reuse assertion) or "queued".
send(ms, qs, a, m, sender) ==
  IF act[a].terminated
    THEN [msgs |-> ms, msgq |-> qs, res |-> "dropped"]
  ELSE IF ms[m].destination # Null
    THEN [msgs |-> ms, msgq |-> qs, res |-> "fatal"]
  ELSE [msgs |-> [ms EXCEPT ![m] = [@ EXCEPT !.is_fast = FALSE, !.last = FALSE,
                                             !.sender = sender, !.destination = a]],
        msgq |-> [qs EXCEPT ![QueueOf(a)] = BQPush(@, m)],
        res  |-> "queued"]

\* the counters after one call of send with result res: sent counts the calls
\* of send that returned, dropped those among them that dropped the message
Counted(c, res) ==
  [c EXCEPT !.sent = @ + (IF res = "fatal" THEN 0 ELSE 1),
            !.dropped = @ + (IF res = "dropped" THEN 1 ELSE 0)]

\* a fast_send that does not take the mutex
fs_nolock(a) == TRUE

\* a process_message_internal that does not wait for the mutex
pmi_nolock(a) == TRUE

\* std::lock_guard<std::mutex> lock(fast_send_mutex) in process_message_internal
\* and in fast_send: the caller goes on when the mutex is free.  A thread that
\* holds the mutex already (std::mutex is not recursive) waits for ever.
pmi_lock(a) == fast_send_mutex[a] = Null

fs_lock(a) == fast_send_mutex[a] = Null

\* a loop that a Shutdown does not end
loop_break_terminated(is_shutdown, terminated) == terminated

\* Actor::operator(): if (is_shutdown || terminated) break;
loop_break(is_shutdown, terminated) == is_shutdown \/ terminated

\* a process_message_internal that leaves using_fast_send as it finds it
pmi_enter_keep(ac) == [ac EXCEPT !.msg_cnt = @ + 1]

\* process_message_internal, between taking the mutex and call_handler
pmi_enter(ac) == [ac EXCEPT !.msg_cnt = @ + 1, !.using_fast_send = FALSE]

\* a fast_send that leaves reply_message as the last call left it
fs_enter_keep(ac) ==
  [ac EXCEPT !.using_fast_send = TRUE, !.msg_cnt = @ + 1]

\* fast_send, between the assertions and the terminated test
fs_enter(ac) ==
  [ac EXCEPT !.reply_message = 0, !.using_fast_send = TRUE, !.msg_cnt = @ + 1]

\* a stamp that leaves is_fast and last as they are
fs_stamp_sender(msg, sender) == [msg EXCEPT !.sender = sender]

\* fast_send's stamp of the envelope
fs_stamp(msg, sender) == [msg EXCEPT !.sender = sender, !.is_fast = TRUE, !.last = TRUE]

\* ZmqReceiver::ZmqReceiver: running_(false), an empty mailbox; the worker
\* thread and the thread that will call terminate() have not run
NewReceiver ==
  [running_ |-> FALSE, terminated |-> FALSE, terminate_called |-> FALSE,
   msgq |-> <<>>,        \* the mailbox: "Continue" and "Shutdown" messages
   pc |-> "init",        \* where the worker thread is
   cur |-> "",           \* the message the worker is dispatching
   ext |-> "idle",       \* where the thread that calls terminate() is
   outcome |-> "",       \* what the last socket_.recv gave
   recvs |-> 0,          \* receives made by the handler that runs (history)
   enq |-> 0,            \* Continues sent by the handler that runs (history)
   polls |-> 0,          \* Continue handlers begun (history)
   late |-> 0,           \* Continues queued after running_ = false (history)
   observed |-> FALSE]   \* a handler has read running_ as false (history)

\* Actor::call_handler, run by thread t for a message of identity id: the first
\* dispatch of an identity sets handler_cache[id] or dont_have_handler[id]
cache_write(ac, id, t) ==
  IF id \in DOMAIN ac.cache_by THEN ac ELSE [ac EXCEPT !.cache_by = (id :> t) @@ @]

\* call_handler and the process_message fallback of actor a for message m of the
\* heap ms: the frame that runs.  A Group has handlers for Start and Shutdown
\* (Group::add) and its process_message forwards.
\* Manager::process_message takes a
\* Shutdown into its loop over actor_list.
Dispatch(ms, a, m) ==
  IF is_group(a)
    THEN IF ms[m].id \in {StartId, ShutdownId} /\ ms[m].sender # a
           THEN [Frame("fan", a, m, "call") EXCEPT !.flag = (ms[m].id = StartId), !.i = 1]
           ELSE Frame("fwd", a, m, "fwd")
  ELSE IF a = "Mgr" /\ ms[m].id = ShutdownId
    THEN [Frame("mshut", a, m, "end") EXCEPT !.i = 1]
    ELSE Frame("h", a, m, "body")

(***************************************************************************)
(* Manager and Group registration: Group::add and Manager::manage on the    *)
(* registries.  A std::map is a function on the set of its keys.  mg is the *)
(* state of the registries:                                                 *)
(*   objs, groups      the actor objects, and those of class Group          *)
(*   name              get_name() of each object                            *)
(*   members           Group::members, name_to_actor  Group::name_to_actor  *)
(*   group             Actor::group (Null: is_part_of_group is false)       *)
(*   is_managed, affinity, priority, priority_type    the fields of Actor   *)
(*   actor_list, managed_name_map, expanded_name_map  the fields of Manager *)
(*   thread_list       the actors a thread was spawned for                  *)
(*   pinned, sched     per spawned thread its cores and scheduling class    *)
(***************************************************************************)
SCHED_OTHER == "SCHED_OTHER"
SCHED_FIFO == "SCHED_FIFO"
SCHED_RR == "SCHED_RR"

EmptyMap == [k \in {} |-> Null]
MapPut(m, k, v) == [x \in DOMAIN m \cup {k} |-> IF x = k THEN v ELSE m[x]]

NewManager(os, gs, name) ==
  [objs |-> os, groups |-> gs, name |-> name,
   members |-> [g \in gs |-> <<>>],
   name_to_actor |-> [g \in gs |-> EmptyMap],
   group |-> [a \in os |-> Null],
   is_managed |-> [a \in os |-> FALSE],
   affinity |-> [a \in os |-> {}],
   priority |-> [a \in os |-> 0],
   priority_type |-> [a \in os |-> SCHED_OTHER],
   actor_list |-> <<>>,
   managed_name_map |-> EmptyMap,
   expanded_name_map |-> EmptyMap,
   thread_list |-> <<>>,
   pinned |-> [a \in os |-> {}],
   sched |-> [a \in os |-> SCHED_OTHER]]

\* Group::add(a) on Group g
GroupAdd(mg, g, a) ==
  [mg EXCEPT !.group[a] = g,
             !.members[g] = Append(@, a),
             !.name_to_actor[g] = MapPut(@, mg.name[a], a)]

\* Manager::manage(actor, affinity, priority, priority_type): the registries
\* after the call and "ok", or the registries at the failed assertion and its
\* text
manage(mg, actor, affinity, priority, priority_type) ==
  LET n  == mg.name[actor]
      m1 == [mg EXCEPT !.managed_name_map = MapPut(@, n, actor),
                       !.expanded_name_map = MapPut(@, n, actor),
                       !.actor_list = Append(@, actor)]
      nta == mg.name_to_actor[actor]
      m2 == IF actor \in mg.groups
              THEN [m1 EXCEPT !.expanded_name_map =
                     [x \in DOMAIN @ \cup DOMAIN nta |->
                        IF x \in DOMAIN nta THEN nta[x] ELSE @[x]]]
              ELSE m1
      m3 == [m2 EXCEPT !.is_managed[actor] = TRUE,
                       !.affinity[actor] = affinity,
                       !.priority[actor] = priority,
                       !.priority_type[actor] = priority_type]
  IN
  IF mg.is_managed[actor] \/ n \in DOMAIN mg.managed_name_map
    THEN [mgr |-> mg, res |-> "actor with this name already managed"]
  ELSE IF n \in DOMAIN mg.expanded_name_map
    THEN [mgr |-> mg, res |-> "actor cannot be managed because it's part of a group that was already managed"]
  ELSE IF \E core_id \in affinity : core_id < 0 \/ core_id >= NumCores
    THEN [mgr |-> mg, res |-> "core id out of range"]
  ELSE IF actor \in mg.groups /\ DOMAIN nta = {}
    THEN [mgr |-> m1, res |-> "add actors to group before managing group"]
  ELSE IF actor \in mg.groups /\ DOMAIN nta \cap DOMAIN m1.expanded_name_map # {}
    THEN [mgr |-> m1, res |-> "actor (part of a group) already managed somewhere else"]
  ELSE [mgr |-> m3, res |-> "ok"]


(***************************************************************************)
(* The remote layer.  Two processes, each with a ZmqSender, a ZmqReceiver   *)
(* and one application actor: "pong" in process A (examples/remote_pong),   *)
(* "ping" in process B (examples/remote_ping).  B also knows a message type *)
(* Odd that A has not registered.                                           *)
(***************************************************************************)
Procs == {"A", "B"}

\* ZmqSender::local_endpoint_ of each process
local_endpoint == [A |-> "tcp://localhost:5001", B |-> "tcp://localhost:5002"]

\* socket.connect(endpoint): the process whose pull socket is bound there
connect(endpoint) == CHOOSE p \in Procs : local_endpoint[p] = endpoint

PingId == 100
PongId == 101
OddId == PongId + 1
\* the identity of a message class that no process has registered
RawId == OddId + 1
RejectId == 9
RemoteSendRequestId == 8

\* MessageRegistry of each process: the (msg_id, type_name) pairs registered
\* by REGISTER_REMOTE_MESSAGE_1 in its translation units and by Reject.hpp
MessageRegistry ==
  [A |-> {<<PingId, "Ping">>, <<PongId, "Pong">>, <<RejectId, "Reject">>},
   B |-> {<<PingId, "Ping">>, <<PongId, "Pong">>, <<RejectId, "Reject">>, <<OddId, "Odd">>}]

\* ZmqReceiver::registry_ after the register_actor calls of the constructors
registry_ == [A |-> [pong |-> "pong"], B |-> [ping |-> "ping"]]

\* the application actor behind a name, and the process it lives in
AppActors == {"ping", "pong"}
ProcOf == [ping |-> "B", pong |-> "A"]

\* Actor::get_name() of an application actor
get_name(a) == a

NewRemote ==
  [sendq   |-> [p \in Procs |-> <<>>],      \* msgq of the ZmqSender
   wire    |-> [p \in Procs |-> <<>>],      \* frames on the way to the pull socket
   mbox    |-> [a \in AppActors |-> <<>>],  \* msgq of the application actors
   proxies |-> [p \in Procs |-> <<>>],      \* ZmqReceiver::proxies_
   calls   |-> <<>>,                        \* the send_to calls made (history)
   frames  |-> <<>>,                        \* the frames received (history)
   done    |-> <<>>,                        \* the handler invocations (history)
   replies |-> 0,                           \* the reply() calls made (history)
   send_is_virtual |-> FALSE,               \* which header reply_to->send follows
   sent    |-> 0]                           \* the sends of application code

\* a null Message* or Actor* next to pointers to records
nullptr == [null |-> TRUE]
is_null(ptr) == "null" \in DOMAIN ptr

\* what a call that threw leaves in place of its result
thrown(what) == [thrown |-> what]
is_thrown(result) == "thrown" \in DOMAIN result

\* a JSON object {"count": "<text>"}: the member is a string, not a number
TextCount(n) == [count |-> n, count_type |-> "string"]

\* MessageRegistry::get_type_name
get_type_name(p, msg_id) ==
  IF \E e \in MessageRegistry[p] : e[1] = msg_id
    THEN (CHOOSE e \in MessageRegistry[p] : e[1] = msg_id)[2]
    ELSE ""

\* MessageRegistry::serialize: the registered function copies the fields
\* into a JSON object
serialize(msg) ==
  IF msg.id = RejectId
    THEN [message_type |-> msg.message_type, reason |-> msg.reason,
          rejected_by |-> msg.rejected_by]
    ELSE [count |-> msg.count]

\* a deserialize that builds a message whatever the type name is
deserialize_lenient(p, type_name, data) ==
  IF type_name = "Reject"
    THEN [id |-> RejectId, message_type |-> data.message_type,
          reason |-> data.reason, rejected_by |-> data.rejected_by]
    ELSE [id |-> OddId, count |-> data.count]

\* MessageRegistry::deserialize: the message the registered function builds
\* from the JSON object, or nullptr for an unknown type name.  The function
\* REGISTER_REMOTE_MESSAGE_1 registers is new Type(j["count"].get<int>()),
\* and get<int>() of a string throws nlohmann::json::type_error.
deserialize(p, type_name, data) ==
  IF \E e \in MessageRegistry[p] : e[2] = type_name
    THEN LET msg_id == (CHOOSE e \in MessageRegistry[p] : e[2] = type_name)[1] IN
         IF msg_id = RejectId
           THEN [id |-> RejectId, message_type |-> data.message_type,
                 reason |-> data.reason, rejected_by |-> data.rejected_by]
         ELSE IF "count_type" \in DOMAIN data
           THEN thrown("nlohmann::json::type_error")
           ELSE [id |-> msg_id, count |-> data.count]
    ELSE nullptr

\* nlohmann::json::dump and json::parse: the text of a JSON value and back
dump(j) == <<"text", j>>
parse(text) == text[2]

\* ZmqSender::send_to on the Sender of process p, called by `by`: the request
\* is queued to the Sender's own mailbox; an unregistered type throws
send_to(r, p, by, endpoint, actor_name, msg, sender) ==
  LET type_name == get_type_name(p, msg.id)
      req == [id |-> RemoteSendRequestId,
              endpoint |-> endpoint,
              actor_name |-> actor_name,
              sender_name |-> IF sender # Null THEN get_name(sender) ELSE "",
              sender_endpoint |-> IF sender # Null THEN local_endpoint[p] ELSE "",
              message_type |-> type_name,
              message_json |-> dump(serialize(msg))]
      call == [p |-> p, by |-> by, endpoint |-> endpoint, actor_name |-> actor_name,
               msg |-> msg, sender |-> sender, from |-> sender, thrown |-> type_name = ""]
  IN  IF type_name = ""
        THEN [r EXCEPT !.calls = Append(@, call)]
        ELSE [r EXCEPT !.calls = Append(@, call), !.sendq[p] = Append(@, req)]

\* ZmqSender::on_send_request and send_raw: one frame to the peer's socket
on_send_request(r, p, req) ==
  LET envelope ==
        [sender_actor |-> IF req.sender_name # "" THEN req.sender_name ELSE Null,
         sender_endpoint |-> IF req.sender_name # "" THEN req.sender_endpoint ELSE Null,
         receiver |-> req.actor_name,
         message_type |-> req.message_type,
         message |-> parse(req.message_json)]
  IN  [r EXCEPT !.wire[connect(req.endpoint)] = Append(@, dump(envelope))]

\* a send_reject that names the Receiver itself as the rejecting party
send_reject_unnamed(r, p, endpoint, actor_name, msg_type, reason, rejected_by) ==
  send_to(r, p, "ZmqReceiver", endpoint, actor_name,
          [id |-> RejectId, message_type |-> msg_type, reason |-> reason,
           rejected_by |-> "ZmqReceiver"],
          Null)

\* a send_reject that passes the Receiver as the sender of the Reject
send_reject_this(r, p, endpoint, actor_name, msg_type, reason, rejected_by) ==
  send_to(r, p, "ZmqReceiver", endpoint, actor_name,
          [id |-> RejectId, message_type |-> msg_type, reason |-> reason,
           rejected_by |-> rejected_by],
          "ZmqReceiver")

\* ZmqReceiver::send_reject
send_reject(r, p, endpoint, actor_name, msg_type, reason, rejected_by) ==
  send_to(r, p, "ZmqReceiver", endpoint, actor_name,
          [id |-> RejectId, message_type |-> msg_type, reason |-> reason,
           rejected_by |-> rejected_by],
          Null)

\* bool has_sender = !envelope["sender_actor"].is_null();
has_sender(envelope) == envelope.sender_actor # Null

\* RemoteReplyProxy::send(m, sender): forwards m to the remote actor through
\* the Sender; the sender it is given is not passed on.  The call records the
\* actor the message comes from (history).
proxy_send(r, p, proxy, m, sender) ==
  LET r1 == send_to(r, p, "RemoteReplyProxy", proxy.remote_endpoint_, proxy.remote_actor_, m, Null)
  IN  [r1 EXCEPT !.calls[Len(r1.calls)].from = sender]

\* an Actor::send that puts the message in front of the queued ones
actor_send_front(r, target, msg, sender) ==
  [r EXCEPT !.mbox[target] = <<[m |-> msg, sender |-> sender]>> \o @]

\* Actor::send on an application actor that has not terminated: msgq->push
actor_send(r, target, msg, sender) ==
  [r EXCEPT !.mbox[target] = Append(@, [m |-> msg, sender |-> sender])]

\* ZmqReceiver::handle_remote_message, and the catch clause of on_continue
\* that takes a nlohmann::json::exception leaving it
handle_remote_message(r, p, envelope) ==
  LET receiver_name == envelope.receiver
      msg_type == envelope.message_type
      sender_actor == IF has_sender(envelope) THEN envelope.sender_actor ELSE ""
      sender_endpoint == IF has_sender(envelope) THEN envelope.sender_endpoint ELSE ""
      found == receiver_name \in DOMAIN registry_[p]
      msg == deserialize(p, msg_type, envelope.message)
      proxy == [remote_actor_ |-> sender_actor, remote_endpoint_ |-> sender_endpoint,
                msgq |-> <<>>]
      r1 == [r EXCEPT !.proxies[p] = Append(@, proxy)]
      reply_actor == [p |-> p, proxy |-> Len(r.proxies[p]) + 1]
  IN  IF ~found
        THEN IF has_sender(envelope)
               THEN send_reject(r, p, sender_endpoint, sender_actor, msg_type,
                                <<"Actor '", receiver_name, "' not found">>, receiver_name)
               ELSE r
      ELSE IF is_thrown(msg)
        THEN r
      ELSE IF is_null(msg)
        THEN IF has_sender(envelope)
               THEN send_reject(r, p, sender_endpoint, sender_actor, msg_type,
                                <<"Unknown message type: ", msg_type>>, receiver_name)
               ELSE r
      ELSE IF has_sender(envelope)
        THEN actor_send(r1, registry_[p][receiver_name], msg, reply_actor)
        ELSE actor_send(r, registry_[p][receiver_name], msg, nullptr)


(***************************************************************************)
(* The handler table of an actor and Actor::call_handler.  A message class  *)
(* has a runtime type and the identity its Message_N<N> base returns; two   *)
(* classes may derive from the same Message_N<N>.  A handler is named by    *)
(* the class it was registered for and by when it was registered.           *)
(***************************************************************************)
ACTOR_HANDLER_CACHE_SIZE == 512

\* the message classes dispatched, with their get_message_id()
MessageIdOf == [Ping |-> PingId, Echo |-> PingId, Pong |-> PongId,
                Big |-> ACTOR_HANDLER_CACHE_SIZE]
MessageTypes == DOMAIN MessageIdOf

\* the value of a default-constructed member-function pointer
NoHandler == <<"nullptr", "">>

\* the actor after Actor::Actor() and the MESSAGE_HANDLER lines of its own
\* constructor: handler_cache all nullptr, dont_have_handler all false (both
\* kept as their non-default entries), and what the dispatches did (history)
NewHandlers(table) ==
  [handlers |-> table,
   handler_cache |-> <<>>,
   dont_have_handler |-> {},
   corrupt |-> FALSE,        \* memory outside the two vectors was written
   tick |-> FALSE,           \* flips with every dispatch (history)
   seen |-> {},              \* the classes dispatched so far (history)
   late |-> {},              \* the classes registered after a dispatch of their identity (history)
   last |-> [type |-> "", id |-> 0, path |-> "", ran |-> NoHandler, oob |-> FALSE,
             find |-> FALSE]]

InCache(id) == id \in 0..(ACTOR_HANDLER_CACHE_SIZE - 1)

\* a cache that remembers the first handler it was given, for every identity
cache_put_first(cache, id, f) ==
  IF cache = <<>> THEN (id :> f) ELSE (id :> cache[CHOOSE i \in DOMAIN cache : TRUE]) @@ cache

\* a table lookup that leaves handler_cache as it is
cache_put_none(cache, id, f) == cache

\* handler_cache[id] = f
cache_put(cache, id, f) == (id :> f) @@ cache

\* a miss that leaves the negative flags as they are
flag_keep(flags, id) == flags

\* dont_have_handler[id] = true
flag_set(flags, id) == flags \cup {id}

\* Actor::call_handler(m) for a message of class type, and the fallback
\* if (!called) process_message(m) of its two callers.  An identity outside
\* the vectors reads whatever lies there: f0 and flag are what the two reads
\* return in that case.
call_handler(h, type, f0_read, flag_read) ==
  LET id == MessageIdOf[type]
      f0 == IF InCache(id)
              THEN IF id \in DOMAIN h.handler_cache THEN h.handler_cache[id] ELSE NoHandler
              ELSE f0_read
      flag == IF InCache(id) THEN id \in h.dont_have_handler ELSE flag_read
      rec == [type |-> type, id |-> id, path |-> "", ran |-> NoHandler, oob |-> ~InCache(id),
              find |-> FALSE]
      h1 == [h EXCEPT !.seen = @ \cup {type}, !.tick = ~@]
  IN  IF f0 # NoHandler
        THEN [h1 EXCEPT !.last = [rec EXCEPT !.path = "cache", !.ran = f0]]
      ELSE IF flag
        THEN [h1 EXCEPT !.last = [rec EXCEPT !.path = "flag", !.ran = <<"process_message", "">>]]
      ELSE IF type \notin DOMAIN h.handlers
        THEN [h1 EXCEPT !.last = [rec EXCEPT !.path = "miss", !.find = TRUE,
                                             !.ran = <<"process_message", "">>],
                        !.dont_have_handler = IF InCache(id) THEN flag_set(@, id) ELSE @,
                        !.corrupt = @ \/ ~InCache(id)]
      ELSE [h1 EXCEPT !.last = [rec EXCEPT !.path = "table", !.find = TRUE,
                                           !.ran = h.handlers[type]],
                      !.handler_cache = IF InCache(id) THEN cache_put(@, id, h.handlers[type]) ELSE @,
                      !.corrupt = @ \/ ~InCache(id)]

\* register_handler<ActorT, MsgT>::operator(): handlers[typeid(MsgT)] = ptr
register_handler(h, type, f) ==
  [h EXCEPT !.handlers = (type :> f) @@ @,
            !.late = IF \E t \in h.seen : MessageIdOf[t] = MessageIdOf[type]
                       THEN @ \cup {type} ELSE @]


(***************************************************************************)
(* Init: the actors are constructed, the worker threads have been spawned   *)
(* and are about to enter Actor::operator().                                *)
(***************************************************************************)
Scenarios ==
  { [threads |-> {"A", "X"}, targets |-> {"A"}, term |-> {"A"},
     senders |-> {Null, "M1"}, fsenders |-> {Null, "A"}, max |-> MaxMsgs],
    [threads |-> {"G", "X"}, targets |-> {"M1", "M2"}, term |-> {"M1"},
     senders |-> {"A"}, fsenders |-> {"A"}, max |-> MaxMsgs] }

Init ==
  /\ scn \in Scenarios
  /\ msgs = <<>>
  /\ ginfo = <<>>
  /\ msgq = [a \in Actors |-> BQueue(ACTOR_BQUEUE_SIZE)]
  /\ act = [a \in Actors |-> NewActor]
  /\ fast_send_mutex = [a \in Actors |-> Null]
  /\ stack = [t \in Threads |->
               IF t \notin scn.threads THEN <<>>
               ELSE IF t = "X" THEN <<Frame("ext", Null, 0, "body")>>
               ELSE <<Frame("loop", t, 0, "init")>>]
  /\ fatal = Null
  /\ hlog = [a \in Actors |-> <<>>]
  /\ hooks = [a \in Actors |-> [init |-> 0, end |-> 0]]
  /\ cnt = [sent |-> 0, dropped |-> 0, popped |-> 0, resent |-> 0]
  /\ mgr = NewManager({}, {}, EmptyMap)
  /\ rem = NewRemote
  /\ bq = NewBQ(ACTOR_BQUEUE_SIZE)
  /\ hc = NewHandlers(<<>>)
  /\ rcv = NewReceiver

(***************************************************************************)
(* Actor::operator(): the worker loop.                                      *)
(***************************************************************************)
WorkerInit(t) ==
  /\ At(t, "loop", "init")
  /\ hooks' = [hooks EXCEPT ![Top(t).a].init = @ + 1]
  /\ stack' = [stack EXCEPT ![t] = SetTop(@, [Top(t) EXCEPT !.pc = "pop"])]
  /\ UNCHANGED <<msgs, ginfo, msgq, act, fast_send_mutex, fatal, hlog, cnt, scn, mgr, rem, bq, hc, rcv>>

\* msgq->pop(), m->last = last, reply_to = m->sender, is_shutdown, and the call
\* of process_message_internal(m)
WorkerPop(t) ==
  /\ At(t, "loop", "pop")
  /\ LET a == Top(t).a IN
     /\ ~BQEmpty(msgq[a])
     /\ LET r == BQPop(msgq[a])
            m == r[1]
        IN
        /\ msgq' = [msgq EXCEPT ![a] = r[3]]
        /\ msgs' = [msgs EXCEPT ![m].last = r[2]]
        /\ act' = [act EXCEPT ![a].reply_to = msgs[m].sender]
        /\ cnt' = [cnt EXCEPT !.popped = @ + 1]
        /\ ginfo' = [ginfo EXCEPT ![m].pops = @ + 1]
        /\ stack' = [stack EXCEPT ![t] =
             PushF(SetTop(@, [Top(t) EXCEPT !.pc = "check", !.m = m,
                                            !.flag = (msgs[m].id = ShutdownId)]),
                   Frame("pmi", a, m, "lock"))]
  /\ UNCHANGED <<fast_send_mutex, fatal, hlog, hooks, scn, mgr, rem, bq, hc, rcv>>

\* if (is_shutdown || terminated) break; ... terminated = true; end();
WorkerCheck(t) ==
  /\ At(t, "loop", "check")
  /\ LET a == Top(t).a IN
     IF loop_break(Top(t).flag, act[a].terminated)
       THEN /\ act' = [act EXCEPT ![a].terminated = TRUE]
            /\ hooks' = [hooks EXCEPT ![a].end = @ + 1]
            /\ stack' = [stack EXCEPT ![t] = SetTop(@, [Top(t) EXCEPT !.pc = "done"])]
       ELSE /\ stack' = [stack EXCEPT ![t] = SetTop(@, [Top(t) EXCEPT !.pc = "pop"])]
            /\ UNCHANGED <<act, hooks>>
  /\ UNCHANGED <<msgs, ginfo, msgq, fast_send_mutex, fatal, hlog, cnt, scn, mgr, rem, bq, hc, rcv>>

(***************************************************************************)
(* Actor::process_message_internal(m, dontdel).                             *)
(***************************************************************************)
PmiLock(t) ==
  /\ At(t, "pmi", "lock")
  /\ LET a == Top(t).a
         m == Top(t).m
     IN
     /\ pmi_lock(a)
     /\ fast_send_mutex' = [fast_send_mutex EXCEPT ![a] = t]
     /\ act' = [act EXCEPT ![a] = cache_write(pmi_enter(@), msgs[m].id, t)]
     /\ hlog' = [hlog EXCEPT ![a] = Append(@, [m |-> m, fast |-> FALSE])]
     /\ stack' = [stack EXCEPT ![t] =
          PushF(SetTop(@, [Top(t) EXCEPT !.pc = "unlock"]), Dispatch(msgs, a, m))]
  /\ UNCHANGED <<msgs, ginfo, msgq, fatal, hooks, cnt, scn, mgr, rem, bq, hc, rcv>>

\* if (!dontdel) delete m; and the lock_guard's release
PmiUnlock(t) ==
  /\ At(t, "pmi", "unlock")
  /\ LET a == Top(t).a
         m == Top(t).m
     IN
     /\ msgs' = IF Top(t).flag THEN msgs ELSE [msgs EXCEPT ![m].frees = @ + 1]
     /\ fast_send_mutex' = [fast_send_mutex EXCEPT ![a] = Null]
     /\ stack' = [stack EXCEPT ![t] = Returned(PopF(@))]
  /\ UNCHANGED <<ginfo, msgq, act, fatal, hlog, hooks, cnt, scn, mgr, rem, bq, hc, rcv>>

(***************************************************************************)
(* Actor::fast_send(m, sender).                                             *)
(***************************************************************************)
FsLock(t) ==
  /\ At(t, "fs", "lock")
  /\ LET a == Top(t).a
         m == Top(t).m
         sender == Top(t).snd
     IN
     /\ fs_lock(a)
     /\ fast_send_mutex' = [fast_send_mutex EXCEPT ![a] = t]
     /\ ginfo' = [ginfo EXCEPT ![m].tt = act[a].terminated]
     /\ IF a = sender
          THEN /\ fatal' = "fast send to itself"
               /\ UNCHANGED <<msgs, act, hlog, stack>>
          ELSE LET ms == [msgs EXCEPT ![m] = fs_stamp(@, sender)] IN
               /\ fatal' = fatal
               /\ msgs' = ms
               /\ act' = [act EXCEPT ![a] = IF act[a].terminated THEN fs_enter(@)
                                              ELSE cache_write(fs_enter(@), msgs[m].id, t)]
               /\ IF act[a].terminated
                    THEN /\ stack' = [stack EXCEPT ![t] = SetTop(@, [Top(t) EXCEPT !.pc = "ret"])]
                         /\ hlog' = hlog
                    ELSE /\ stack' = [stack EXCEPT ![t] =
                              PushF(SetTop(@, [Top(t) EXCEPT !.pc = "ret"]), Dispatch(ms, a, m))]
                         /\ hlog' = [hlog EXCEPT ![a] = Append(@, [m |-> m, fast |-> TRUE])]
  /\ UNCHANGED <<msgq, hooks, cnt, scn, mgr, rem, bq, hc, rcv>>

\* return std::unique_ptr<const Message>(reply_message); and the lock_guard's release
FsReturn(t) ==
  /\ At(t, "fs", "ret")
  /\ LET a == Top(t).a
         m == Top(t).m
     IN
     /\ ginfo' = [ginfo EXCEPT ![m] = [@ EXCEPT !.res = "returned", !.ret = act[a].reply_message]]
     /\ fast_send_mutex' = [fast_send_mutex EXCEPT ![a] = Null]
     /\ stack' = [stack EXCEPT ![t] = PopF(@)]
  /\ UNCHANGED <<msgs, msgq, act, fatal, hlog, hooks, cnt, scn, mgr, rem, bq, hc, rcv>>

\* the lock_guard of fast_send in a thread that holds the same mutex already:
\* std::mutex is not recursive and the lock is undefined.  The thread waits for
\* ever (no step), or lock() throws std::system_error, which nothing catches.
FsRelock(t) ==
  /\ At(t, "fs", "lock")
  /\ fast_send_mutex[Top(t).a] = t
  /\ fatal' = "resource deadlock would occur"
  /\ UNCHANGED <<msgs, ginfo, msgq, act, fast_send_mutex, stack, hlog, hooks, cnt, scn, mgr, rem, bq, hc, rcv>>

(***************************************************************************)
(* Group: forward and the Start / Shutdown fan-out.                         *)
(***************************************************************************)
\* Group::forward(m): the assertion, the write of the destination's reply_to
\* (no mutex is held for it) and the call of the destination's
\* process_message_internal(m, true)
Forward(t) ==
  /\ At(t, "fwd", "fwd")
  /\ LET m == Top(t).m
         dest == msgs[m].destination
     IN
     IF msgs[m].is_fast
       THEN /\ fatal' = "cannot fast send here"
            /\ UNCHANGED <<act, stack>>
       ELSE /\ fatal' = fatal
            /\ act' = [act EXCEPT ![dest].reply_to = msgs[m].sender]
            /\ stack' = [stack EXCEPT ![t] =
                 PushF(SetTop(@, [Top(t) EXCEPT !.pc = "ret"]),
                       [Frame("pmi", dest, m, "lock") EXCEPT !.flag = TRUE])]
  /\ UNCHANGED <<msgs, ginfo, msgq, fast_send_mutex, hlog, hooks, cnt, scn, mgr, rem, bq, hc, rcv>>

\* a walk over a std::list from its back
list_at_back(l, i) == l[Len(l) + 1 - i]

\* for (auto x : l): the element of turn i of the loop
list_at(l, i) == l[i]

\* Group::start_handler / shutdown_handler, m->sender != this: one turn of the
\* loop over the members.  Start: a->init(); a->fast_send(new Start, this).
\* Shutdown: a->fast_send(new Shutdown, this), and a->end() on its return.
FanCall(t) ==
  /\ At(t, "fan", "call")
  /\ LET g == Top(t).a
         i == Top(t).i
     IN
     IF i > Len(members[g])
       THEN /\ stack' = [stack EXCEPT ![t] = PopF(@)]
            /\ UNCHANGED <<msgs, ginfo, hooks>>
       ELSE LET b == list_at(members[g], i)
                m == Len(msgs) + 1
                isStart == Top(t).flag
            IN
            /\ Len(msgs) < scn.max
            /\ msgs' = Append(msgs, NewMessage(IF isStart THEN StartId ELSE ShutdownId))
            /\ ginfo' = Append(ginfo, [NoInfo EXCEPT !.by = t, !.to = b, !.how = "fast"])
            /\ hooks' = IF isStart THEN [hooks EXCEPT ![b].init = @ + 1] ELSE hooks
            /\ stack' = [stack EXCEPT ![t] =
                 PushF(SetTop(@, IF isStart THEN [Top(t) EXCEPT !.i = i + 1]
                                            ELSE [Top(t) EXCEPT !.pc = "end"]),
                       [Frame("fs", b, m, "lock") EXCEPT !.snd = g])]
  /\ UNCHANGED <<msgq, act, fast_send_mutex, fatal, hlog, cnt, scn, mgr, rem, bq, hc, rcv>>

FanEnd(t) ==
  /\ At(t, "fan", "end")
  /\ LET g == Top(t).a
         i == Top(t).i
     IN
     /\ hooks' = [hooks EXCEPT ![list_at(members[g], i)].end = @ + 1]
     /\ stack' = [stack EXCEPT ![t] = SetTop(@, [Top(t) EXCEPT !.pc = "call", !.i = i + 1])]
  /\ UNCHANGED <<msgs, ginfo, msgq, act, fast_send_mutex, fatal, hlog, cnt, scn, mgr, rem, bq, hc, rcv>>

(***************************************************************************)
(* User code: a handler makes at most one call of the API and returns; the  *)
(* external thread makes any number.  A handler passes itself as sender.    *)
(***************************************************************************)

CanCall(t) == Running(t) /\ Top(t).k \in {"h", "ext"} /\ Top(t).pc = "body"
SenderArgs(t) == IF Top(t).k = "h" THEN {Top(t).a} ELSE scn.senders
FastSenderArgs(t) == IF Top(t).k = "h" THEN {Top(t).a} ELSE scn.fsenders
\* the caller's stack after a call that returned: a handler returns too
Called(s) == IF s[Len(s)].k = "h" THEN PopF(s) ELSE s
\* the caller's stack under a nested call: a handler returns when the call has
Calling(s) == IF s[Len(s)].k = "h" THEN SetTop(s, [s[Len(s)] EXCEPT !.pc = "ret"]) ELSE s

\* b->send(new Message_N<id>, sender)
CallSend(t, b, id, sender) ==
  /\ CanCall(t)
  /\ Len(msgs) < scn.max
  /\ sender \in SenderArgs(t)
  /\ LET m == Len(msgs) + 1
         r == send(Append(msgs, NewMessage(id)), msgq, b, m, sender)
     IN
     /\ msgs' = r.msgs
     /\ msgq' = r.msgq
     /\ ginfo' = Append(ginfo, [NoInfo EXCEPT !.by = t, !.to = b, !.how = "send", !.res = r.res,
                                         !.tt = act[b].terminated])
     /\ cnt' = Counted(cnt, r.res)
  /\ stack' = [stack EXCEPT ![t] = Called(@)]
  /\ UNCHANGED <<act, fast_send_mutex, fatal, hlog, hooks, scn, mgr, rem, bq, hc, rcv>>

\* Actor::terminate() of b: this->send(new msg::Shutdown())
CallTerminate(t, b) ==
  /\ CanCall(t)
  /\ Len(msgs) < scn.max
  /\ LET m == Len(msgs) + 1
         r == send(Append(msgs, NewMessage(ShutdownId)), msgq, b, m, Null)
     IN
     /\ msgs' = r.msgs
     /\ msgq' = r.msgq
     /\ ginfo' = Append(ginfo, [NoInfo EXCEPT !.by = t, !.to = b, !.how = "terminate", !.res = r.res,
                                         !.tt = act[b].terminated])
     /\ cnt' = Counted(cnt, r.res)
  /\ stack' = [stack EXCEPT ![t] = Called(@)]
  /\ UNCHANGED <<act, fast_send_mutex, fatal, hlog, hooks, scn, mgr, rem, bq, hc, rcv>>

\* b->send(m) with a message m that was sent before and is not deleted yet
CallResend(t, m, b) ==
  /\ CanCall(t)
  /\ Top(t).k = "ext"
  /\ cnt.resent < MaxResend
  /\ m \in 1..Len(msgs)
  /\ msgs[m].destination # Null
  /\ msgs[m].frees = 0
  /\ LET r == send(msgs, msgq, b, m, Null) IN
     /\ msgs' = r.msgs
     /\ msgq' = r.msgq
     /\ fatal' = IF r.res = "fatal" THEN "cannot reuse message" ELSE fatal
     /\ ginfo' = [ginfo EXCEPT ![m] = [@ EXCEPT !.re = r.res, !.reto = b]]
     /\ cnt' = [Counted(cnt, r.res) EXCEPT !.resent = @ + 1]
  /\ stack' = [stack EXCEPT ![t] = Called(@)]
  /\ UNCHANGED <<act, fast_send_mutex, hlog, hooks, scn, mgr, rem, bq, hc, rcv>>

\* b->fast_send(new Message_N<id>, sender): the call; FsLock and FsReturn run it
CallFastSend(t, b, sender) ==
  /\ CanCall(t)
  /\ Len(msgs) < scn.max
  /\ sender \in FastSenderArgs(t)
  /\ LET m == Len(msgs) + 1 IN
     /\ msgs' = Append(msgs, NewMessage(AppId))
     /\ ginfo' = Append(ginfo, [NoInfo EXCEPT !.by = t, !.to = b, !.how = "fast"])
     /\ stack' = [stack EXCEPT ![t] =
          PushF(Calling(@), [Frame("fs", b, m, "lock") EXCEPT !.snd = sender])]
  /\ UNCHANGED <<msgq, act, fast_send_mutex, fatal, hlog, hooks, cnt, scn, mgr, rem, bq, hc, rcv>>

\* Actor::reply(new Message_N<AppId>) in a handler of actor a
CallReply(t) ==
  /\ CanCall(t)
  /\ Top(t).k = "h"
  /\ Len(msgs) < scn.max
  /\ LET a == Top(t).a
         cur == Top(t).m
         m == Len(msgs) + 1
         ms == Append(msgs, NewMessage(AppId))
     IN
     IF act[a].using_fast_send
       THEN /\ msgs' = [ms EXCEPT ![m].sender = a]
            /\ act' = [act EXCEPT ![a].reply_message = m]
            /\ ginfo' = Append([ginfo EXCEPT ![cur].replied = m],
                               [NoInfo EXCEPT !.by = t, !.how = "reply", !.res = "captured"])
            /\ UNCHANGED <<msgq, fatal, cnt>>
     ELSE IF act[a].reply_to = Null
       THEN /\ fatal' = "no return address"
            /\ msgs' = ms
            /\ ginfo' = Append([ginfo EXCEPT ![cur].replied = m],
                               [NoInfo EXCEPT !.by = t, !.how = "reply", !.res = "fatal"])
            /\ UNCHANGED <<msgq, act, cnt>>
       ELSE LET r == send(ms, msgq, act[a].reply_to, m, a) IN
            /\ msgs' = r.msgs
            /\ msgq' = r.msgq
            /\ ginfo' = Append([ginfo EXCEPT ![cur].replied = m],
                               [NoInfo EXCEPT !.by = t, !.to = act[a].reply_to,
                                              !.how = "reply", !.res = r.res,
                                              !.tt = act[act[a].reply_to].terminated])
            /\ cnt' = Counted(cnt, r.res)
            /\ UNCHANGED <<act, fatal>>
  /\ stack' = [stack EXCEPT ![t] = Called(@)]
  /\ UNCHANGED <<fast_send_mutex, hlog, hooks, scn, mgr, rem, bq, hc, rcv>>

\* a handler that calls nothing
HandlerSkip(t) ==
  /\ At(t, "h", "body")
  /\ stack' = [stack EXCEPT ![t] = Called(@)]
  /\ UNCHANGED <<msgs, ginfo, msgq, act, fast_send_mutex, fatal, hlog, hooks, cnt, scn, mgr, rem, bq, hc, rcv>>

HandlerReturn(t) ==
  /\ At(t, "h", "ret")
  /\ stack' = [stack EXCEPT ![t] = PopF(@)]
  /\ UNCHANGED <<msgs, ginfo, msgq, act, fast_send_mutex, fatal, hlog, hooks, cnt, scn, mgr, rem, bq, hc, rcv>>

Next ==
  \E t \in Threads :
    \/ WorkerInit(t)
    \/ WorkerPop(t)
    \/ WorkerCheck(t)
    \/ PmiLock(t)
    \/ PmiUnlock(t)
    \/ FsLock(t)
    \/ FsReturn(t)
    \/ FsRelock(t)
    \/ Forward(t)
    \/ FanCall(t)
    \/ FanEnd(t)
    \/ \E b \in scn.targets, id \in {AppId}, sender \in Actors \cup {Null} : CallSend(t, b, id, sender)
    \/ \E b \in scn.term : CallTerminate(t, b)
    \/ \E m \in 1..MaxMsgs, b \in scn.targets : CallResend(t, m, b)
    \/ \E b \in scn.targets, sender \in Actors \cup {Null} : CallFastSend(t, b, sender)
    \/ CallReply(t)
    \/ HandlerSkip(t)
    \/ HandlerReturn(t)

Spec == Init /\ [][Next]_vars

\* The steps of thread t that the scheduler and the code make happen: every
\* step of the runtime and of a handler, which runs on and returns.  Not among
\* them are the calls of the external thread, which may stop calling, and the
\* throw of a lock on a mutex the thread owns, which may wait for ever instead.
Progress(t) ==
  /\ Running(t)
  /\ Top(t).k # "ext"
  /\ \/ WorkerInit(t)
     \/ WorkerPop(t)
     \/ WorkerCheck(t)
     \/ PmiLock(t)
     \/ PmiUnlock(t)
     \/ FsLock(t)
     \/ FsReturn(t)
     \/ Forward(t)
     \/ FanCall(t)
     \/ FanEnd(t)
     \/ \E b \in scn.targets, sender \in Actors \cup {Null} : CallSend(t, b, AppId, sender)
     \/ \E b \in scn.term : CallTerminate(t, b)
     \/ \E b \in scn.targets, sender \in Actors \cup {Null} : CallFastSend(t, b, sender)
     \/ CallReply(t)
     \/ HandlerSkip(t)
     \/ HandlerReturn(t)

FairSpec == Spec /\ \A t \in Threads : WF_vars(Progress(t))


(***************************************************************************)
(* The Manager at work: main() of the examples.  The Manager's constructor  *)
(* has added M1 and M2 to G and called manage(A), manage(G); the main       *)
(* thread X calls init() and then end().  No thread runs the Manager's own  *)
(* operator(): init() spawns threads for the actors of actor_list only.     *)
(***************************************************************************)
\* manage(A, {}, 1, SCHED_RR) and manage(G) with the default arguments
Registered ==
  LET mg0 == NewManager({"A", "G", "M1", "M2"}, {"G"}, [a \in {"A", "G", "M1", "M2"} |-> a])
      mg1 == GroupAdd(GroupAdd(mg0, "G", "M1"), "G", "M2")
      mg2 == manage(mg1, "A", {}, 1, SCHED_RR).mgr
  IN  manage(mg2, "G", {}, 0, SCHED_OTHER).mgr

\* The handlers send to M1 and call terminate() on the Manager and on A.  The
\* runtime itself creates a Start for every managed actor and every Group
\* member and the Manager's own in init(); user code may add MaxMsgs - 1.
MgrScenario ==
  [threads |-> {"X"}, targets |-> {"M1"}, term |-> {"Mgr", "A"},
   senders |-> {}, fsenders |-> {}, max |-> Cardinality(Actors) + MaxMsgs - 1]

MInit ==
  /\ scn = MgrScenario
  /\ msgs = <<>>
  /\ ginfo = <<>>
  /\ msgq = [a \in Actors |-> BQueue(ACTOR_BQUEUE_SIZE)]
  /\ act = [a \in Actors |-> NewActor]
  /\ fast_send_mutex = [a \in Actors |-> Null]
  /\ stack = [t \in Threads |->
               IF t = "X" THEN <<[Frame("minit", "Mgr", 0, "start") EXCEPT !.i = 1]>> ELSE <<>>]
  /\ fatal = Null
  /\ hlog = [a \in Actors |-> <<>>]
  /\ hooks = [a \in Actors |-> [init |-> 0, end |-> 0]]
  /\ cnt = [sent |-> 0, dropped |-> 0, popped |-> 0, resent |-> 0]
  /\ mgr = Registered
  /\ rem = NewRemote
  /\ bq = NewBQ(ACTOR_BQUEUE_SIZE)
  /\ hc = NewHandlers(<<>>)
  /\ rcv = NewReceiver

\* Manager::init, first loop: actor->fast_send(new Start, nullptr) for the
\* next actor of actor_list
MgrStart(t) ==
  /\ At(t, "minit", "start")
  /\ LET i == Top(t).i
         m == Len(msgs) + 1
     IN
     IF i > Len(mgr.actor_list)
       THEN /\ stack' = [stack EXCEPT ![t] = SetTop(@, [Top(t) EXCEPT !.pc = "spawn", !.i = 1])]
            /\ UNCHANGED <<msgs, ginfo>>
       ELSE /\ msgs' = Append(msgs, NewMessage(StartId))
            /\ ginfo' = Append(ginfo, [NoInfo EXCEPT !.by = t, !.to = list_at(mgr.actor_list, i), !.how = "fast"])
            /\ stack' = [stack EXCEPT ![t] =
                 PushF(SetTop(@, [Top(t) EXCEPT !.i = i + 1]),
                       Frame("fs", list_at(mgr.actor_list, i), m, "lock"))]
  /\ UNCHANGED <<msgq, act, fast_send_mutex, fatal, hlog, hooks, cnt, scn, mgr, rem, bq, hc, rcv>>

\* Manager::init, second loop: new std::thread([actor]() { (*actor)(); }) for
\* the next actor, set_thread_affinity if its affinity is not empty, and
\* pthread_setschedparam(.., SCHED_FIFO, ..) if its priority is positive.  Both
\* calls may fail, which is logged only.
MgrSpawn(t) ==
  /\ At(t, "minit", "spawn")
  /\ LET i == Top(t).i IN
     IF i > Len(mgr.actor_list)
       THEN /\ stack' = [stack EXCEPT ![t] = SetTop(@, [Top(t) EXCEPT !.pc = "self"])]
            /\ mgr' = mgr
       ELSE LET actor == list_at(mgr.actor_list, i) IN
            /\ stack' = [stack EXCEPT ![t] = SetTop(@, [Top(t) EXCEPT !.i = i + 1]),
                                       ![actor] = <<Frame("loop", actor, 0, "init")>>]
            /\ \E pinok, schedok \in BOOLEAN :
                 /\ (mgr.affinity[actor] = {} => pinok)
                 /\ (mgr.priority[actor] <= 0 => schedok)
                 /\ mgr' = [mgr EXCEPT
                      !.thread_list = Append(@, actor),
                      !.pinned[actor] = IF pinok THEN mgr.affinity[actor] ELSE @,
                      !.sched[actor] = IF mgr.priority[actor] > 0 /\ schedok
                                         THEN SCHED_FIFO ELSE @]
  /\ UNCHANGED <<msgs, ginfo, msgq, act, fast_send_mutex, fatal, hlog, hooks, cnt, scn, rem, bq, hc, rcv>>

\* Manager::init, its end: this->send(new msg::Start()); and main's call of
\* Manager::end()
MgrSelf(t) ==
  /\ At(t, "minit", "self")
  /\ LET m == Len(msgs) + 1
         r == send(Append(msgs, NewMessage(StartId)), msgq, "Mgr", m, Null)
     IN
     /\ msgs' = r.msgs
     /\ msgq' = r.msgq
     /\ ginfo' = Append(ginfo, [NoInfo EXCEPT !.by = t, !.to = "Mgr", !.how = "send", !.res = r.res,
                                         !.tt = act["Mgr"].terminated])
     /\ cnt' = Counted(cnt, r.res)
  /\ stack' = [stack EXCEPT ![t] = <<[Frame("mend", "Mgr", 0, "join") EXCEPT !.i = 1]>>]
  /\ UNCHANGED <<act, fast_send_mutex, fatal, hlog, hooks, scn, mgr, rem, bq, hc, rcv>>

\* Manager::end: t->join() for the next thread of thread_list, which returns
\* when that thread has left Actor::operator()
MgrJoin(t) ==
  /\ At(t, "mend", "join")
  /\ LET i == Top(t).i IN
     IF i > Len(mgr.thread_list)
       THEN stack' = [stack EXCEPT ![t] = SetTop(@, [Top(t) EXCEPT !.pc = "done"])]
       ELSE /\ stack[list_at(mgr.thread_list, i)][1].pc = "done"
            /\ stack' = [stack EXCEPT ![t] = SetTop(@, [Top(t) EXCEPT !.i = i + 1])]
  /\ UNCHANGED <<msgs, ginfo, msgq, act, fast_send_mutex, fatal, hlog, hooks, cnt, scn, mgr, rem, bq, hc, rcv>>

MNext ==
  \E t \in Threads :
    \/ MgrStart(t)
    \/ MgrSpawn(t)
    \/ MgrSelf(t)
    \/ MgrJoin(t)
    \/ WorkerInit(t)
    \/ WorkerPop(t)
    \/ WorkerCheck(t)
    \/ PmiLock(t)
    \/ PmiUnlock(t)
    \/ FsLock(t)
    \/ FsReturn(t)
    \/ Forward(t)
    \/ FanCall(t)
    \/ \E b \in scn.targets : CallSend(t, b, AppId, Top(t).a)
    \/ \E b \in scn.term : CallTerminate(t, b)
    \/ HandlerSkip(t)

MgrSpec == MInit /\ [][MNext]_vars

\* every thread is scheduled: the main thread goes on through init() and
\* end(), the workers through their loops, and handlers run on and return
MProgress(t) ==
  \/ MgrStart(t)
  \/ MgrSpawn(t)
  \/ MgrSelf(t)
  \/ MgrJoin(t)
  \/ WorkerInit(t)
  \/ WorkerPop(t)
  \/ WorkerCheck(t)
  \/ PmiLock(t)
  \/ PmiUnlock(t)
  \/ FsLock(t)
  \/ FsReturn(t)
  \/ Forward(t)
  \/ FanCall(t)
  \/ \E b \in scn.targets : CallSend(t, b, AppId, Top(t).a)
  \/ \E b \in scn.term : CallTerminate(t, b)
  \/ HandlerSkip(t)

MgrFairSpec == MgrSpec /\ \A t \in Threads : WF_vars(MProgress(t))


(***************************************************************************)
(* Building the registry: the calls of Group::add and Manager::manage that  *)
(* a program makes before Manager::init, in any order, on two plain actors  *)
(* and two Groups.  A failed assertion ends the program.                    *)
(***************************************************************************)
MaxMembers == 2
MaxManaged == 3

ManageObjs == {"a1", "a2", "g1", "g2"}
ManageGroups == {"g1", "g2"}

\* the names the constructors were given (two objects may carry one name)
ManageNames ==
  {[a1 |-> "n1", a2 |-> n2, g1 |-> "g1", g2 |-> n4] : n2 \in {"n1", "n2"}, n4 \in {"g2", "n1"}}

\* the (affinity, priority, priority_type) arguments of manage()
ManageArgs ==
  { [affinity |-> {}, priority |-> 0, priority_type |-> SCHED_OTHER],
    [affinity |-> {0}, priority |-> 1, priority_type |-> SCHED_RR],
    [affinity |-> {NumCores}, priority |-> 0, priority_type |-> SCHED_OTHER] }

ManageInit ==
  /\ scn = [threads |-> {}, targets |-> {}, term |-> {}, senders |-> {}, fsenders |-> {}, max |-> 0]
  /\ msgs = <<>>
  /\ ginfo = <<>>
  /\ msgq = [a \in Actors |-> BQueue(ACTOR_BQUEUE_SIZE)]
  /\ act = [a \in Actors |-> NewActor]
  /\ fast_send_mutex = [a \in Actors |-> Null]
  /\ stack = [t \in Threads |-> <<>>]
  /\ fatal = Null
  /\ hlog = [a \in Actors |-> <<>>]
  /\ hooks = [a \in Actors |-> [init |-> 0, end |-> 0]]
  /\ cnt = [sent |-> 0, dropped |-> 0, popped |-> 0, resent |-> 0]
  /\ mgr \in {NewManager(ManageObjs, ManageGroups, nm) : nm \in ManageNames}
  /\ rem = NewRemote
  /\ bq = NewBQ(ACTOR_BQUEUE_SIZE)
  /\ hc = NewHandlers(<<>>)
  /\ rcv = NewReceiver

\* g.add(a); a program adds the members before it has the Group managed
Add(g, a) ==
  /\ fatal = Null
  /\ ~mgr.is_managed[g]
  /\ Len(mgr.members[g]) < MaxMembers
  /\ mgr' = GroupAdd(mgr, g, a)
  /\ UNCHANGED <<msgs, ginfo, msgq, act, fast_send_mutex, stack, fatal, hlog, hooks, cnt, scn, rem, bq, hc, rcv>>

\* manager.manage(actor, affinity, priority, priority_type)
Manage(actor, args) ==
  /\ fatal = Null
  /\ Len(mgr.actor_list) < MaxManaged
  /\ LET r == manage(mgr, actor, args.affinity, args.priority, args.priority_type) IN
       /\ mgr' = r.mgr
       /\ fatal' = IF r.res = "ok" THEN Null ELSE r.res
  /\ UNCHANGED <<msgs, ginfo, msgq, act, fast_send_mutex, stack, hlog, hooks, cnt, scn, rem, bq, hc, rcv>>

ManageNext ==
  \/ \E g \in ManageGroups, a \in ManageObjs \ ManageGroups : Add(g, a)
  \/ \E actor \in ManageObjs, args \in ManageArgs : Manage(actor, args)

ManageSpec == ManageInit /\ [][ManageNext]_vars


(***************************************************************************)
(* The remote layer at work: the application code of "ping" in process B    *)
(* sends to names at process A's endpoint; the Senders, the Receivers and   *)
(* the application actors run on their worker threads.  Nothing terminates. *)
(***************************************************************************)
MaxRemote == 2

RemoteInit ==
  /\ scn = [threads |-> {}, targets |-> {}, term |-> {}, senders |-> {}, fsenders |-> {}, max |-> 0]
  /\ msgs = <<>>
  /\ ginfo = <<>>
  /\ msgq = [a \in Actors |-> BQueue(ACTOR_BQUEUE_SIZE)]
  /\ act = [a \in Actors |-> NewActor]
  /\ fast_send_mutex = [a \in Actors |-> Null]
  /\ stack = [t \in Threads |-> <<>>]
  /\ fatal = Null
  /\ hlog = [a \in Actors |-> <<>>]
  /\ hooks = [a \in Actors |-> [init |-> 0, end |-> 0]]
  /\ cnt = [sent |-> 0, dropped |-> 0, popped |-> 0, resent |-> 0]
  /\ mgr = NewManager({}, {}, EmptyMap)
  /\ rem = NewRemote
  /\ bq = NewBQ(ACTOR_BQUEUE_SIZE)
  /\ hc = NewHandlers(<<>>)
  /\ rcv = NewReceiver

\* a handler of actor a calls ref.send(msg, sender) on a RemoteActorRef for
\* actor_name at the other process (RemoteActorRef::send); a Ping for "pong"
\* carries its sender, as PingActor's do.  What send_to throws leaves the
\* handler, unless the handler itself catches it, and then call_handler and
\* Actor::operator(), which are noexcept: std::terminate ends the process.
UserSend(a, actor_name, msg_id, sender) ==
  /\ fatal = Null
  /\ rem.sent < MaxRemote
  /\ (msg_id = PingId /\ actor_name = "pong") => sender # Null
  /\ LET r == send_to([rem EXCEPT !.sent = @ + 1], ProcOf[a], a,
                      local_endpoint[CHOOSE q \in Procs : q # ProcOf[a]], actor_name,
                      [id |-> msg_id, count |-> rem.sent + 1], sender)
     IN  /\ rem' = r
         /\ \E caught \in BOOLEAN :
              fatal' = IF r.calls[Len(r.calls)].thrown /\ ~caught
                         THEN "terminate called after throwing std::runtime_error"
                         ELSE fatal
  /\ UNCHANGED <<msgs, ginfo, msgq, act, fast_send_mutex, stack, hlog, hooks, cnt, scn, mgr, bq, hc, rcv>>

\* the ZmqSender's worker pops a RemoteSendRequest and runs on_send_request
SenderRun(p) ==
  /\ fatal = Null
  /\ rem.sendq[p] # <<>>
  /\ rem' = on_send_request([rem EXCEPT !.sendq[p] = Tail(@)], p, Head(rem.sendq[p]))
  /\ UNCHANGED <<msgs, ginfo, msgq, act, fast_send_mutex, stack, fatal, hlog, hooks, cnt, scn, mgr, bq, hc, rcv>>

\* ZmqReceiver::on_continue when socket_.recv returns a frame
ReceiverPoll(p) ==
  /\ fatal = Null
  /\ rem.wire[p] # <<>>
  /\ LET envelope == parse(Head(rem.wire[p])) IN
       rem' = handle_remote_message(
                [rem EXCEPT !.wire[p] = Tail(@),
                            !.frames = Append(@, [p |-> p, envelope |-> envelope])],
                p, envelope)
  /\ UNCHANGED <<msgs, ginfo, msgq, act, fast_send_mutex, stack, fatal, hlog, hooks, cnt, scn, mgr, bq, hc, rcv>>

\* Actor::reply outside fast_send: reply_to->send(m, this).  Actor.hpp declares
\* Actor::send without virtual, so the call through the Actor* reply_to is
\* Actor::send, which pushes m to the mailbox of the actor reply_to points to.
\* ZmqReceiver.hpp declares RemoteReplyProxy::send with override, which holds
\* only of a virtual Actor::send; were that header followed, the call would
\* be RemoteReplyProxy::send.
reply(r, a, reply_to, m) ==
  IF r.send_is_virtual
    THEN proxy_send([r EXCEPT !.replies = @ + 1], reply_to.p,
                    r.proxies[reply_to.p][reply_to.proxy], m, a)
    ELSE [r EXCEPT !.replies = @ + 1,
                   !.proxies[reply_to.p][reply_to.proxy].msgq = Append(@, [m |-> m, sender |-> a])]

\* the worker of application actor a pops a message and runs its handler:
\* PongActor::on_ping replies with a Pong of the same count; PingActor has
\* handlers for Start and Pong only, and Pong's is not reached here
ActorRun(a) ==
  /\ fatal = Null
  /\ rem.mbox[a] # <<>>
  /\ LET m == Head(rem.mbox[a]).m
         reply_to == Head(rem.mbox[a]).sender
         r1 == [rem EXCEPT !.mbox[a] = Tail(@),
                           !.done = Append(@, [a |-> a, m |-> m, reply_to |-> reply_to])]
     IN  IF a = "pong" /\ m.id = PingId
           THEN IF is_null(reply_to)
                  THEN /\ fatal' = "no return address"
                       /\ rem' = r1
                  ELSE /\ rem' = reply(r1, a, reply_to, [id |-> PongId, count |-> m.count])
                       /\ fatal' = fatal
           ELSE /\ rem' = r1
                /\ fatal' = fatal
  /\ UNCHANGED <<msgs, ginfo, msgq, act, fast_send_mutex, stack, hlog, hooks, cnt, scn, mgr, bq, hc, rcv>>

RemoteNext ==
  \/ \E actor_name \in {"pong", "ghost"}, msg_id \in {PingId, OddId}, sender \in {"ping", Null} :
       UserSend("ping", actor_name, msg_id, sender)
  \/ \E p \in Procs : SenderRun(p)
  \/ \E p \in Procs : ReceiverPoll(p)
  \/ \E a \in AppActors : ActorRun(a)

RemoteSpec == RemoteInit /\ [][RemoteNext]_vars

\* the same steps with Actor::send taken as virtual, as RemoteReplyProxy's
\* override specifier has it: a reply goes through RemoteReplyProxy::send
RemoteOverrideInit ==
  /\ scn = [threads |-> {}, targets |-> {}, term |-> {}, senders |-> {}, fsenders |-> {}, max |-> 0]
  /\ msgs = <<>>
  /\ ginfo = <<>>
  /\ msgq = [a \in Actors |-> BQueue(ACTOR_BQUEUE_SIZE)]
  /\ act = [a \in Actors |-> NewActor]
  /\ fast_send_mutex = [a \in Actors |-> Null]
  /\ stack = [t \in Threads |-> <<>>]
  /\ fatal = Null
  /\ hlog = [a \in Actors |-> <<>>]
  /\ hooks = [a \in Actors |-> [init |-> 0, end |-> 0]]
  /\ cnt = [sent |-> 0, dropped |-> 0, popped |-> 0, resent |-> 0]
  /\ mgr = NewManager({}, {}, EmptyMap)
  /\ rem = [NewRemote EXCEPT !.send_is_virtual = TRUE]
  /\ bq = NewBQ(ACTOR_BQUEUE_SIZE)
  /\ hc = NewHandlers(<<>>)
  /\ rcv = NewReceiver

RemoteOverrideSpec == RemoteOverrideInit /\ [][RemoteNext]_vars

\* the same, with application code that also sends messages of a class it
\* has not registered for remote use
RemoteErrNext ==
  \/ RemoteNext
  \/ \E actor_name \in {"pong", "ghost"}, sender \in {"ping", Null} :
       UserSend("ping", actor_name, RawId, sender)

RemoteErrSpec == RemoteInit /\ [][RemoteErrNext]_vars

\* another program connects to the pull socket of process p and pushes a
\* frame for actor_name: a Ping whose count is a string, from its actor "ping"
PeerFrame(p, actor_name) ==
  /\ rem.sent < MaxRemote
  /\ LET q == CHOOSE q \in Procs : q # p
         envelope == [sender_actor |-> "ping",
                      sender_endpoint |-> local_endpoint[q],
                      receiver |-> actor_name,
                      message_type |-> "Ping",
                      message |-> TextCount(rem.sent + 1)]
     IN  rem' = [rem EXCEPT !.sent = @ + 1, !.wire[p] = Append(@, dump(envelope))]
  /\ UNCHANGED <<msgs, ginfo, msgq, act, fast_send_mutex, stack, fatal, hlog, hooks, cnt, scn, mgr, bq, hc, rcv>>

RemoteDecodeNext ==
  \/ RemoteNext
  \/ \E actor_name \in {"pong", "ghost"} : PeerFrame("A", actor_name)

RemoteDecodeSpec == RemoteInit /\ [][RemoteDecodeNext]_vars

\* the worker threads of the Senders, the Receivers and the actors are
\* scheduled; a Receiver polls its socket again and again
RemoteFairSpec ==
  /\ RemoteSpec
  /\ \A p \in Procs : WF_vars(SenderRun(p)) /\ WF_vars(ReceiverPoll(p))
  /\ \A a \in AppActors : WF_vars(ActorRun(a))


(***************************************************************************)
(* What the properties speak about.                                         *)
(***************************************************************************)
Msgs == 1..Len(msgs)
Indices == [i \in Msgs |-> i]
IsPrefix(p, q) == Len(p) <= Len(q) /\ SubSeq(q, 1, Len(p)) = p
Occurrences(q, x) == Cardinality({i \in 1..Len(q) : q[i] = x})

\* the frames of all stacks, as <<thread, depth>>
Frames == UNION {{<<t, i>> : i \in 1..Len(stack[t])} : t \in Threads}
FrameAt(f) == stack[f[1]][f[2]]
\* the frames in which code of actor a handles a message: a user handler, or for
\* a Group its start_handler, shutdown_handler or process_message
HandlerKinds == {"h", "fan", "fwd"}
Executing(a) == {f \in Frames : FrameAt(f).a = a /\ FrameAt(f).k \in HandlerKinds}
\* the threads that run a handler of actor a
HandlerThreads(a) == {f[1] : f \in Executing(a)}

\* the messages that thread t passed to send (directly or through reply) for
\* receiver r and that were queued, in the order of the calls.  For a Group
\* member these are the application messages: a Start or Shutdown is taken by
\* the Group's own handler.
SentTo(t, r) ==
  LET Test(m) == /\ ginfo[m].by = t
                 /\ ginfo[m].to = r
                 /\ ginfo[m].how \in {"send", "reply", "terminate"}
                 /\ ginfo[m].res = "queued"
                 /\ (is_part_of_group(r) => msgs[m].id = AppId)
  IN  SelectSeq(Indices, Test)

\* the messages of thread t that r's handlers were invoked for by asynchronous
\* dispatch, in the order of the invocations
HandledFrom(t, r) ==
  LET Test(e) == ~e.fast /\ ginfo[e.m].by = t
      h == SelectSeq(hlog[r], Test)
  IN  [i \in 1..Len(h) |-> h[i].m]

(***************************************************************************)
(* C1. Messages that one thread sends to one receiver (a plain actor or a   *)
(* Group member) are handled by the receiver in the order of the send       *)
(* calls, none skipped: at any time the handled ones are a prefix of the    *)
(* sent ones.                                                               *)
(***************************************************************************)
C1_FifoPerPair ==
  \A t \in Threads, r \in Actors :
    ~is_group(r) => IsPrefix(HandledFrom(t, r), SentTo(t, r))

\* a Group member has handled two messages of the external thread, sent while a
\* message of another thread was handled in between or not
C1_Witness ==
  \E r \in Actors :
    /\ is_part_of_group(r)
    /\ Len(HandledFrom("X", r)) >= 2

(***************************************************************************)
(* C2. At most one handler of an actor executes at any time, whether it is  *)
(* dispatched by the worker or by fast_send calls of other threads.         *)
(***************************************************************************)
C2_OneHandler == \A a \in Actors : Cardinality(Executing(a)) <= 1

\* a fast_send of the external thread waits for the mutex while the worker runs
\* a handler of the same actor
C2_Witness ==
  \E a \in Actors :
    /\ At("X", "fs", "lock") /\ Top("X").a = a
    /\ \E t \in Threads \ {"X"} : t \in HandlerThreads(a)

(***************************************************************************)
(* C3. Two distinct members of one Group never execute handlers at the same *)
(* time in different threads.  The code violates it: each member has its    *)
(* own mutex, so a fast_send on M2 from another thread runs M2's handler    *)
(* while the Group's worker runs M1's.                                      *)
(***************************************************************************)
C3_GroupMembersSerial ==
  \A g \in DOMAIN members :
    \A i, j \in 1..Len(members[g]) :
      i # j =>
        \A t1 \in HandlerThreads(members[g][i]), t2 \in HandlerThreads(members[g][j]) :
          t1 = t2

(***************************************************************************)
(* C4. fast_send(m, s) on a live actor runs the target's handler for m in   *)
(* the caller's thread, once, and to completion before it returns; the call *)
(* changes no mailbox (m is never queued, popped or given a destination);   *)
(* it returns exactly the message its own handler passed to reply(),        *)
(* stamped with sender = target, or nothing if that handler did not reply,  *)
(* never the reply of an earlier fast_send.                                 *)
(***************************************************************************)
\* the invocations of a's handlers for message m through fast_send
FastRuns(a, m) == Cardinality({i \in 1..Len(hlog[a]) : hlog[a][i] = [m |-> m, fast |-> TRUE]})

C4_FastState ==
  \A m \in Msgs :
    ginfo[m].how = "fast" =>
      /\ msgs[m].destination = Null
      /\ ginfo[m].pops = 0
      /\ \A q \in Queued : Occurrences(BQContents(msgq[q]), m) = 0
      /\ \A f \in Frames : FrameAt(f).m = m => f[1] = ginfo[m].by
      /\ ginfo[m].res = "returned" =>
           /\ \A f \in Frames : FrameAt(f).m # m
           /\ ginfo[m].ret = ginfo[m].replied
           /\ ginfo[m].ret # 0 =>
                /\ msgs[ginfo[m].ret].sender = ginfo[m].to
                /\ ginfo[ginfo[m].ret].res = "captured"
           /\ ~ginfo[m].tt => FastRuns(ginfo[m].to, m) = 1

\* a step of fast_send itself (the thread's innermost frame is fast_send's)
C4_FastStep ==
  \A t \in Threads :
    (Running(t) /\ Top(t).k = "fs" /\ stack'[t] # stack[t]) => msgq' = msgq

C4_FastSend == []C4_FastState /\ [][C4_FastStep]_vars

\* a fast_send on a live actor returned nothing although an earlier fast_send
\* on the same actor had returned a reply
C4_Witness ==
  \E m1, m2 \in Msgs :
    /\ m1 < m2
    /\ ginfo[m1].how = "fast" /\ ginfo[m2].how = "fast"
    /\ ginfo[m1].to = ginfo[m2].to
    /\ ginfo[m1].res = "returned" /\ ginfo[m1].ret # 0
    /\ ginfo[m2].res = "returned" /\ ginfo[m2].ret = 0
    /\ ~ginfo[m2].tt /\ FastRuns(ginfo[m2].to, m2) = 1

(***************************************************************************)
(* C5. When the handler that the worker (or, for a Group member, the        *)
(* Group's forward) dispatched for message m calls reply(r): if m has a     *)
(* sender, r is passed once to send on m's sender with r.sender = the       *)
(* replying actor (so it is queued once for m's sender, or dropped if that  *)
(* actor is terminated), whatever fast_send calls other threads make on the *)
(* replying actor; if m has no sender, reply is the fatal error "no return  *)
(* address" and r is sent nowhere.                                          *)
(***************************************************************************)
\* how often message m is or was in a mailbox
Enqueued(m) ==
  ginfo[m].pops + Cardinality({<<q, i>> \in Actors \X (1..Len(msgs) + MaxResend) :
                                 /\ i <= BQLength(msgq[q])
                                 /\ BQContents(msgq[q])[i] = m})

C5_AsyncReply ==
  \A m \in Msgs :
    (ginfo[m].how # "fast" /\ ginfo[m].replied # 0) =>
      LET r == ginfo[m].replied IN
      /\ ginfo[r].how = "reply"
      /\ IF msgs[m].sender = Null
           THEN /\ ginfo[r].res = "fatal"
                /\ fatal = "no return address"
                /\ msgs[r].destination = Null
                /\ Enqueued(r) = 0
           ELSE /\ ginfo[r].to = msgs[m].sender
                /\ ginfo[r].res = (IF ginfo[r].tt THEN "dropped" ELSE "queued")
                /\ Enqueued(r) = (IF ginfo[r].tt THEN 0 ELSE 1)
                /\ ~ginfo[r].tt =>
                     /\ msgs[r].sender = msgs[m].destination
                     /\ msgs[r].destination = msgs[m].sender
                     /\ ~msgs[r].is_fast
                     /\ ginfo[r].pops = 0 =>
                          Occurrences(BQContents(msgq[QueueOf(msgs[m].sender)]), r) = 1

\* a Group member, reached through forward after a fast_send on it had run a
\* handler, replied to the sender of the forwarded message
C5_Witness ==
  \E m, f \in Msgs :
    LET b == ginfo[m].to IN
    /\ ginfo[m].how = "send" /\ is_part_of_group(b)
    /\ ginfo[f].how = "fast" /\ ginfo[f].to = b
    /\ hlog[b] = <<[m |-> f, fast |-> TRUE], [m |-> m, fast |-> FALSE]>>
    /\ ginfo[m].replied # 0
    /\ ginfo[ginfo[m].replied].res = "queued"

(***************************************************************************)
(* C6 as stated. Every send of a message whose destination is already set   *)
(* is the fatal error, whatever the state of the target, and the message is *)
(* never enqueued a second time.  The code tests terminated first: a second *)
(* send to a terminated actor returns silently.                             *)
(***************************************************************************)
C6_ResendAlwaysFatal ==
  \A m \in Msgs :
    ginfo[m].re # Null =>
      /\ ginfo[m].re = "fatal"
      /\ fatal = "cannot reuse message"
      /\ Enqueued(m) <= 1

(***************************************************************************)
(* C6 amended. A send of a message whose destination is already set is the  *)
(* fatal error "cannot reuse message" when the target is not terminated,    *)
(* and a silent drop (no error) when the target is terminated; in neither   *)
(* case is the message enqueued a second time or its envelope changed.      *)
(***************************************************************************)
C6_Resend ==
  \A m \in Msgs :
    ginfo[m].re # Null =>
      /\ ginfo[m].re = (IF act[ginfo[m].reto].terminated THEN "dropped" ELSE "fatal")
      /\ (fatal = "cannot reuse message") <=> (ginfo[m].re = "fatal")
      /\ Enqueued(m) <= 1
      /\ msgs[m].destination = ginfo[m].to

\* a message that was queued once was sent again, to a terminated actor
C6_Witness ==
  \E m \in Msgs :
    /\ ginfo[m].re = "dropped"
    /\ ginfo[m].res = "queued"
    /\ Enqueued(m) = 1

\* a message that was queued once was sent again, to a live actor
C6_WitnessFatal ==
  \E m \in Msgs : ginfo[m].re = "fatal" /\ ginfo[m].res = "queued"

(***************************************************************************)
(* C7. A call a.fast_send(x, a) always ends in the fatal error "fast send   *)
(* to itself" and runs no handler, from every calling context.  fast_send   *)
(* takes the lock_guard before its assertions, so the call gets there only  *)
(* by acquiring a's mutex: a thread inside the call that holds a's mutex    *)
(* has hit the assertion.  The code violates it: issued from one of a's own *)
(* handlers, the call locks the mutex its thread holds already and never    *)
(* reaches the assertion.                                                   *)
(***************************************************************************)
C7_SelfFastSendFatal ==
  \A t \in Threads :
    (stack[t] # <<>> /\ Top(t).k = "fs" /\ Top(t).a = Top(t).snd) =>
      (fast_send_mutex[Top(t).a] = t => fatal = "fast send to itself")

(***************************************************************************)
(* C8. send() to an actor whose terminated flag is set is a silent drop:    *)
(* the call changes no mailbox and no field of the message's envelope and   *)
(* raises no error, and no handler ever runs for the message.               *)
(***************************************************************************)
SendKinds == {"send", "terminate", "reply"}

\* the messages that were passed to send on an actor with terminated set
Dropped == {m \in Msgs : ginfo[m].how \in SendKinds /\ ginfo[m].tt}

C8_DropState ==
  \A m \in Dropped :
    /\ ginfo[m].res = "dropped"
    /\ msgs[m] = NewMessage(msgs[m].id)
    /\ Enqueued(m) = 0
    /\ \A a \in Actors : \A i \in 1..Len(hlog[a]) : hlog[a][i].m # m
    /\ \A f \in Frames : FrameAt(f).m # m

\* the step of the call itself: of a new message, or of one sent before
C8_DropStep ==
  /\ (Len(ginfo') = Len(ginfo) + 1 /\ ginfo'[Len(ginfo')].how \in SendKinds
                                   /\ ginfo'[Len(ginfo')].tt) =>
       /\ msgq' = msgq
       /\ fatal' = fatal
       /\ hlog' = hlog
       /\ act' = act
       /\ msgs' = Append(msgs, NewMessage(msgs'[Len(msgs')].id))
  /\ \A m \in Msgs :
       (ginfo'[m].re = "dropped" /\ ginfo[m].re # "dropped") =>
         /\ msgq' = msgq
         /\ fatal' = fatal
         /\ hlog' = hlog
         /\ act' = act
         /\ msgs' = msgs

C8_SilentDrop == []C8_DropState /\ [][C8_DropStep]_vars

\* a message was sent to an actor whose worker had left its loop and set the
\* terminated flag
C8_Witness ==
  \E m \in Dropped :
    /\ ginfo[m].how = "send"
    /\ ginfo[m].res = "dropped"
    /\ act[ginfo[m].to].terminated

(***************************************************************************)
(* C9 as stated. Mailbox conservation: the number of messages passed to     *)
(* send equals the number taken from the mailboxes for dispatch plus the    *)
(* number pending in the mailboxes.  The code violates it across actor      *)
(* termination: a send to a terminated actor drops the message.             *)
(***************************************************************************)
\* the number of messages pending in the mailboxes
Pending ==
  Cardinality({<<q, i>> \in Actors \X (1..Len(msgs) + MaxResend) : i <= BQLength(msgq[q])})

C9_Conservation == cnt.sent = cnt.popped + Pending

(***************************************************************************)
(* C9 amended. The number of calls of send that returned equals the number  *)
(* of messages taken for dispatch plus the number pending plus the number   *)
(* dropped because the target was terminated; a message that send queued is *)
(* in a mailbox or was taken from it exactly once, any other message never. *)
(***************************************************************************)
C9_ConservationWithDrops ==
  /\ cnt.sent = cnt.popped + Pending + cnt.dropped
  /\ \A m \in Msgs :
       Enqueued(m) = (IF ginfo[m].how \in SendKinds /\ ginfo[m].res = "queued" THEN 1 ELSE 0)

\* a Shutdown was handled, a message behind it is pending for ever and a third
\* message was dropped
C9_Witness ==
  /\ cnt.popped > 0
  /\ Pending > 0
  /\ cnt.dropped > 0

(***************************************************************************)
(* C10 as stated. After terminate() enqueues a Shutdown to a running        *)
(* non-group actor, the worker handles the messages before it, then that    *)
(* Shutdown, and then leaves its loop: when the worker has left its loop,   *)
(* every Shutdown that terminate() enqueued has been handled.  The code     *)
(* violates it when terminate() is called twice before the actor is         *)
(* terminated: the first Shutdown ends the loop, the second stays queued.   *)
(***************************************************************************)
\* the actors with a worker of their own that are not Groups
Plain == {a \in Queued : ~is_group(a)}

\* the messages that send queued for plain actor a, in the order of the pushes
QueuedTo(a) ==
  LET Test(m) == ginfo[m].to = a /\ ginfo[m].how \in SendKinds /\ ginfo[m].res = "queued"
  IN  SelectSeq(Indices, Test)

\* the messages a's handlers were invoked for by its worker, in that order
AsyncHandled(a) ==
  LET Test(e) == ~e.fast
      h == SelectSeq(hlog[a], Test)
  IN  [i \in 1..Len(h) |-> h[i].m]

IsShutdown(m) == msgs[m].id = ShutdownId

\* s up to its first Shutdown, that one included; s if it has none
UpToShutdown(s) ==
  LET S == {i \in 1..Len(s) : IsShutdown(s[i])}
  IN  IF S = {} THEN s
      ELSE SubSeq(s, 1, CHOOSE i \in S : \A j \in S : i <= j)

HasShutdown(a) == \E i \in 1..Len(QueuedTo(a)) : IsShutdown(QueuedTo(a)[i])

\* the worker of a has left its loop
Done(a) == stack[a] # <<>> /\ stack[a][1].pc = "done"

C10_EveryShutdownHandled ==
  \A a \in Plain :
    Done(a) =>
      \A m \in Msgs :
        (ginfo[m].how = "terminate" /\ ginfo[m].to = a /\ ginfo[m].res = "queued") =>
          \E i \in 1..Len(AsyncHandled(a)) : AsyncHandled(a)[i] = m

(***************************************************************************)
(* C10 amended. For the first Shutdown in the mailbox of a running          *)
(* non-group actor: the worker handles the queued messages in the order of  *)
(* their pushes, up to that Shutdown and none behind it; it sets terminated *)
(* and runs the end hook, once, only after it handled that Shutdown, and    *)
(* has then left its loop.  If no assertion aborts the process and no       *)
(* handler waits for ever on a mutex its thread owns, the worker eventually *)
(* gets there.                                                              *)
(***************************************************************************)
C10_DrainState ==
  \A a \in Plain :
    /\ IsPrefix(AsyncHandled(a), UpToShutdown(QueuedTo(a)))
    /\ hooks[a].end = (IF Done(a) THEN 1 ELSE 0)
    /\ act[a].terminated = Done(a)
    /\ Done(a) =>
         /\ HasShutdown(a)
         /\ AsyncHandled(a) = UpToShutdown(QueuedTo(a))
         /\ stack[a] = <<[Frame("loop", a, AsyncHandled(a)[Len(AsyncHandled(a))], "done")
                           EXCEPT !.flag = TRUE]>>

\* a thread waits for a mutex that it owns
SelfLocked == \E t \in Threads : At(t, "fs", "lock") /\ fast_send_mutex[Top(t).a] = t

C10_Drains ==
  \A a \in Plain :
    (a \in scn.threads /\ HasShutdown(a)) ~> (Done(a) \/ fatal # Null \/ SelfLocked)

C10_ShutdownDrain == []C10_DrainState /\ C10_Drains

\* the worker handled a message and then the first Shutdown and left its loop,
\* and a message queued behind the Shutdown is left in the mailbox
C10_Witness ==
  \E a \in Plain :
    /\ Done(a)
    /\ Len(AsyncHandled(a)) = 2
    /\ Len(QueuedTo(a)) = 3
    /\ BQLength(msgq[a]) = 1

(***************************************************************************)
(* C11. Manager::init delivers Start by fast_send to every managed actor in *)
(* the order of the manage() calls, each once; every Start handler (those   *)
(* of Group members included) has returned before a worker thread is        *)
(* spawned or a message is popped, so what Start handlers send stays queued *)
(* until then; the Manager's own Start is posted last, after all threads    *)
(* are spawned.                                                             *)
(***************************************************************************)
MainThread == "X"
\* the main thread is in Manager::init, and in its first loop
InInit == stack[MainThread] # <<>> /\ stack[MainThread][1].k = "minit"
Starting == InInit /\ stack[MainThread][1].pc = "start"
InEnd == stack[MainThread] # <<>> /\ stack[MainThread][1].k = "mend"

Range(q) == {q[i] : i \in 1..Len(q)}

\* the Starts that init() passed to fast_send on managed actors, in call order
InitStarts ==
  LET Test(m) == /\ ginfo[m].by = MainThread /\ ginfo[m].how = "fast"
                 /\ msgs[m].id = StartId /\ ginfo[m].to \in Range(mgr.actor_list)
  IN  SelectSeq(Indices, Test)

\* the Starts of the Group members, and the Starts posted to the Manager
MemberStarts == {m \in Msgs : msgs[m].id = StartId /\ is_part_of_group(ginfo[m].to)}
ManagerStarts == {m \in Msgs : msgs[m].id = StartId /\ ginfo[m].to = "Mgr"}

\* the invocations of a's handlers for message m
Runs(a, m) == Cardinality({i \in 1..Len(hlog[a]) : hlog[a][i].m = m})

C11_InitOrder ==
  LET st == [i \in 1..Len(InitStarts) |-> ginfo[InitStarts[i]].to] IN
  /\ IsPrefix(st, mgr.actor_list)
  /\ \A i \in 1..Len(InitStarts) :
       LET m == InitStarts[i] IN
       /\ Runs(st[i], m) <= 1
       /\ (i < Len(InitStarts) \/ ~Starting) =>
            (ginfo[m].res = "returned" /\ Runs(st[i], m) = 1)
  /\ ~Starting =>
       /\ st = mgr.actor_list
       /\ \A g \in DOMAIN members : \A j \in 1..Len(members[g]) :
            \E m \in MemberStarts : ginfo[m].to = members[g][j]
       /\ \A m \in MemberStarts :
            ginfo[m].res = "returned" /\ Runs(ginfo[m].to, m) = 1
  /\ Starting =>
       /\ mgr.thread_list = <<>>
       /\ \A a \in Queued : stack[a] = <<>>
       /\ cnt.popped = 0
       /\ \A m \in Msgs : ginfo[m].how \in SendKinds =>
            (ginfo[m].res = "queued" /\ ginfo[m].pops = 0 /\ Enqueued(m) = 1)
  /\ IsPrefix(mgr.thread_list, mgr.actor_list)
  /\ \A a \in Queued : stack[a] # <<>> <=> a \in Range(mgr.thread_list)
  /\ Cardinality(ManagerStarts) = (IF InEnd THEN 1 ELSE 0)
  /\ \A m \in ManagerStarts :
       /\ mgr.thread_list = mgr.actor_list
       /\ ginfo[m].res = "queued"
       /\ \A s \in Msgs : (msgs[s].id = StartId /\ s # m) => s < m

\* init() is over, and a message that a Start handler sent from the main
\* thread has been popped by a worker since
C11_Witness ==
  /\ InEnd
  /\ \E m \in Msgs :
       /\ ginfo[m].by = MainThread /\ ginfo[m].how = "send" /\ msgs[m].id = AppId
       /\ ginfo[m].pops = 1

(***************************************************************************)
(* C12. After init(), once an actor has called terminate() on the Manager,  *)
(* the Manager's Shutdown handler eventually runs (and ends every managed   *)
(* actor and the process, so that the main thread does not wait for ever in *)
(* Manager::end).  For that the Shutdown must be taken from the Manager's   *)
(* mailbox.  The code violates it: init() spawns a thread for every actor   *)
(* of actor_list but none for the Manager itself, so nothing ever pops the  *)
(* Manager's mailbox, and end() waits for workers that never leave their    *)
(* loops.                                                                   *)
(***************************************************************************)
\* the Shutdowns that terminate() posted to the Manager
ManagerShutdowns ==
  {m \in Msgs : ginfo[m].to = "Mgr" /\ ginfo[m].how = "terminate" /\ ginfo[m].res = "queued"}

C12_ManagerShutdownRuns ==
  (ManagerShutdowns # {}) ~> (\E m \in ManagerShutdowns : ginfo[m].pops > 0 /\ Runs("Mgr", m) > 0)

(***************************************************************************)
(* C13. For every managed actor, init() has been called before any of its  *)
(* handlers runs (the Start handler included), and no handler of the actor  *)
(* runs once end() has been called.  The code violates the first half:      *)
(* Manager::init delivers Start with fast_send from the calling thread      *)
(* before it creates the worker thread whose operator() calls init().       *)
(***************************************************************************)
\* the actors a Manager is responsible for: its actor_list and their members
Managed ==
  Range(mgr.actor_list) \cup {a \in Actors : GroupOf[a] \in Range(mgr.actor_list)}

C13_InitBeforeHandlers ==
  \A t \in Threads : \A i \in DOMAIN stack[t] :
    (stack[t][i].k = "h" /\ stack[t][i].a \in Managed)
      => (hooks[stack[t][i].a].init >= 1 /\ hooks[stack[t][i].a].end = 0)

(***************************************************************************)
(* C14. When Manager::init starts a managed Group, each member's init()    *)
(* and Start handler execute on the Group's worker thread.  The code        *)
(* violates it: the Group receives its Start by fast_send from the thread   *)
(* that called Manager::init, so Group::start_handler, the members' init()  *)
(* calls and the members' Start handlers all run on that thread, before the *)
(* Group's worker thread has even been created.                             *)
(***************************************************************************)
\* frame f is the Start handler of a member of Group g, entered from
\* Group::start_handler right after that member's init()
StartOfGroup(f, g) ==
  /\ f.k = "h"
  /\ GroupOf[f.a] = g
  /\ f.m \in Msgs
  /\ msgs[f.m].id = StartId
  /\ hooks[f.a].init >= 1

C14_MembersStartOnGroupThread ==
  \A t \in Threads : \A i \in DOMAIN stack[t] : \A g \in DOMAIN members :
    StartOfGroup(stack[t][i], g) => t = g

(***************************************************************************)
(* C17. For every managed actor with priority > 0 the scheduling class     *)
(* that Manager::init applied to its worker thread is the class requested   *)
(* in manage() (a thread whose pthread_setschedparam call failed keeps the  *)
(* class it was created with); with priority = 0 no change is applied.      *)
(* The code violates it: init() passes SCHED_FIFO whatever priority_type    *)
(* the actor was registered with.                                           *)
(***************************************************************************)
C17_RequestedClassApplied ==
  \A a \in Range(mgr.thread_list) :
    IF mgr.priority[a] > 0
      THEN mgr.sched[a] \in {mgr.priority_type[a], SCHED_OTHER}
      ELSE mgr.sched[a] = SCHED_OTHER

(***************************************************************************)
(* C15. After any sequence of manage() calls that did not abort, every     *)
(* name is held by at most one actor among the top-level managed actors     *)
(* and the members of managed Groups, and the flattened name map contains   *)
(* exactly those actors.  The code violates it: Group::add indexes members  *)
(* by name with name_to_actor[name] = a, which silently replaces an earlier *)
(* member of the same name, and manage() walks name_to_actor, not members.  *)
(***************************************************************************)
\* the top-level managed actors and the members of managed Groups
Held ==
  Range(mgr.actor_list) \cup
    {a \in mgr.objs : \E g \in mgr.groups : mgr.is_managed[g] /\ a \in Range(mgr.members[g])}

C15_NamesUnambiguous ==
  fatal = Null =>
    /\ \A a, b \in Held : mgr.name[a] = mgr.name[b] => a = b
    /\ DOMAIN mgr.expanded_name_map = {mgr.name[a] : a \in Held}
    /\ \A a \in Held : mgr.expanded_name_map[mgr.name[a]] = a

(***************************************************************************)
(* C16. manage() of an actor that was added to a Group before is fatal at   *)
(* that very call, whether or not the Group has been managed: no manage()   *)
(* call accepts an actor that is a Group member.  The code violates it:     *)
(* manage() never reads is_part_of_group; a member is refused only if its   *)
(* name is already in a name map, that is, if its Group was managed first.  *)
(***************************************************************************)
C16_MemberNeverAccepted ==
  [][\A a \in mgr.objs :
       (fatal' = Null /\ mgr'.is_managed[a] /\ ~mgr.is_managed[a]) => mgr.group[a] = Null]_vars

(***************************************************************************)
(* The remote layer: what the properties speak about.                       *)
(***************************************************************************)
\* the wire names process p has registered
WireNames(p) == {e[2] : e \in MessageRegistry[p]}

\* the wire names B can send that A has not registered
UnknownAtA == WireNames("B") \ WireNames("A")

\* the sends so far of actor a, naming itself as sender, of wire type ty
SentBy(a, ty) ==
  Cardinality({i \in 1..Len(rem.calls) :
                 /\ rem.calls[i].by = a
                 /\ rem.calls[i].sender = a
                 /\ get_type_name(ProcOf[a], rem.calls[i].msg.id) = ty})

IsRejectOf(m, ty) == m.id = RejectId /\ m.message_type = ty

\* the Rejects for wire type ty that have arrived at actor a: those in its
\* mailbox and those it has taken from it
RejectsAt(a, ty) ==
  Cardinality({i \in 1..Len(rem.mbox[a]) : IsRejectOf(rem.mbox[a][i].m, ty)})
    + Cardinality({i \in 1..Len(rem.done) :
                     rem.done[i].a = a /\ IsRejectOf(rem.done[i].m, ty)})

\* the messages dispatched to actor a by its process's Receiver
DispatchedTo(a) ==
  {rem.mbox[a][i].m : i \in 1..Len(rem.mbox[a])}
    \cup {rem.done[i].m : i \in {j \in 1..Len(rem.done) : rem.done[j].a = a}}

(***************************************************************************)
(* C18. Reject contract.  When "ping" at B sends, naming itself as sender,  *)
(* a message whose wire name A has not registered, exactly one Reject with  *)
(* that message_type eventually arrives at "ping" (never more Rejects than  *)
(* such sends, and in the end as many), and no message of a type unknown to *)
(* A is ever dispatched to an actor of A.                                   *)
(***************************************************************************)
C18_Safe ==
  /\ \A ty \in UnknownAtA : RejectsAt("ping", ty) <= SentBy("ping", ty)
  /\ \A m \in DispatchedTo("pong") : get_type_name("A", m.id) \in WireNames("A")

C18_RejectContract ==
  /\ []C18_Safe
  /\ \A ty \in UnknownAtA : \A k \in 1..MaxRemote :
       (SentBy("ping", ty) >= k) ~> (RejectsAt("ping", ty) >= k)

\* "ping" has taken from its mailbox the Reject for an Odd it sent to "pong"
C18_Witness ==
  \E i \in 1..Len(rem.done) :
    /\ rem.done[i].a = "ping"
    /\ IsRejectOf(rem.done[i].m, "Odd")
    /\ rem.done[i].m.rejected_by = "pong"
    /\ rem.done[i].m.reason = <<"Unknown message type: ", "Odd">>

(***************************************************************************)
(* C19. When a Receiver takes a frame whose receiver name is not in its     *)
(* registry: if the envelope has a sender, the step queues exactly one      *)
(* Reject at the Sender, addressed to (sender_endpoint, sender_actor), with *)
(* message_type the frame's type, rejected_by the unknown name and the      *)
(* reason "not found" whether or not the type is registered; without a      *)
(* sender nothing is sent.  In both cases nothing is dispatched locally.    *)
(***************************************************************************)
\* the step is ReceiverPoll(p): only it takes a frame from p's socket
Polls(p) == rem.wire[p] # <<>> /\ rem'.wire[p] = Tail(rem.wire[p])

IsRejectTo(req, e) ==
  /\ req.endpoint = e.sender_endpoint
  /\ req.actor_name = e.sender_actor
  /\ req.sender_name = ""
  /\ req.message_type = "Reject"
  /\ parse(req.message_json).message_type = e.message_type
  /\ parse(req.message_json).rejected_by = e.receiver
  /\ parse(req.message_json).reason = <<"Actor '", e.receiver, "' not found">>

C19_Step ==
  \A p \in Procs :
    (Polls(p) /\ parse(Head(rem.wire[p])).receiver \notin DOMAIN registry_[p]) =>
      LET e == parse(Head(rem.wire[p])) IN
      /\ rem'.mbox = rem.mbox
      /\ rem'.proxies = rem.proxies
      /\ \A q \in Procs \ {p} : rem'.sendq[q] = rem.sendq[q]
      /\ IF e.sender_actor # Null
           THEN /\ Len(rem'.sendq[p]) = Len(rem.sendq[p]) + 1
                /\ SubSeq(rem'.sendq[p], 1, Len(rem.sendq[p])) = rem.sendq[p]
                /\ IsRejectTo(rem'.sendq[p][Len(rem'.sendq[p])], e)
                /\ Len(rem'.calls) = Len(rem.calls) + 1
           ELSE /\ rem'.sendq[p] = rem.sendq[p]
                /\ rem'.calls = rem.calls

C19_UnknownReceiver == [][C19_Step]_vars

\* A's Receiver has taken an Odd for "ghost" that had a sender and a frame for
\* "ghost" that had none, and has sent one Reject, which names "ghost"
C19_Witness ==
  /\ \E i \in 1..Len(rem.frames) :
       /\ rem.frames[i].envelope.receiver = "ghost"
       /\ rem.frames[i].envelope.message_type = "Odd"
       /\ rem.frames[i].envelope.sender_actor = "ping"
  /\ \E i \in 1..Len(rem.frames) :
       /\ rem.frames[i].envelope.receiver = "ghost"
       /\ rem.frames[i].envelope.sender_actor = Null
  /\ Cardinality({i \in 1..Len(rem.calls) : rem.calls[i].by = "ZmqReceiver"}) = 1
  /\ \E i \in 1..Len(rem.calls) :
       rem.calls[i].by = "ZmqReceiver" /\ rem.calls[i].msg.rejected_by = "ghost"

(***************************************************************************)
(* C20. Remote reply round trip: every reply() a handler makes while it     *)
(* handles a message that came from a remote sender goes through the reply  *)
(* proxy into one Sender.send_to, and no reply is left in a local mailbox.  *)
(* The code violates it: Actor::reply calls reply_to->send(m, this) through *)
(* an Actor*, and Actor::send is not virtual, so RemoteReplyProxy::send is  *)
(* not the function called; the reply is pushed to the proxy's own mailbox, *)
(* which no thread serves.                                                  *)
(***************************************************************************)
\* the send_to calls that RemoteReplyProxy::send made
ProxySends ==
  Cardinality({i \in 1..Len(rem.calls) : rem.calls[i].by = "RemoteReplyProxy"})

C20_ReplyForwarded ==
  /\ \A p \in Procs : \A i \in 1..Len(rem.proxies[p]) : rem.proxies[p][i].msgq = <<>>
  /\ ProxySends = rem.replies

(***************************************************************************)
(* A BQueue on its own: one producer pushing 1, 2, 3, ... and one consumer  *)
(* popping, for every ring capacity from 1 to MaxCap.                       *)
(***************************************************************************)
MaxCap == 3
MaxPush == 5

QInit ==
  /\ scn = [threads |-> {}, targets |-> {}, term |-> {}, senders |-> {}, fsenders |-> {}, max |-> 0]
  /\ msgs = <<>>
  /\ ginfo = <<>>
  /\ msgq = [a \in Actors |-> BQueue(ACTOR_BQUEUE_SIZE)]
  /\ act = [a \in Actors |-> NewActor]
  /\ fast_send_mutex = [a \in Actors |-> Null]
  /\ stack = [t \in Threads |-> <<>>]
  /\ fatal = Null
  /\ hlog = [a \in Actors |-> <<>>]
  /\ hooks = [a \in Actors |-> [init |-> 0, end |-> 0]]
  /\ cnt = [sent |-> 0, dropped |-> 0, popped |-> 0, resent |-> 0]
  /\ mgr = NewManager({}, {}, EmptyMap)
  /\ rem = NewRemote
  /\ \E n \in 1..MaxCap : bq = NewBQ(n)
  /\ hc = NewHandlers(<<>>)
  /\ rcv = NewReceiver

\* BQueue::push(x): under the lock, append to the ring or to the overflow;
\* then notify the waiter, which re-evaluates its predicate in QWake
QPush ==
  /\ Len(bq.pushed) < MaxPush
  /\ LET x == Len(bq.pushed) + 1
     IN  bq' = [bq EXCEPT !.q = BQPush(@, x), !.pushed = Append(@, x)]
  /\ UNCHANGED <<msgs, ginfo, msgq, act, fast_send_mutex, stack, fatal, hlog, hooks, cnt, scn, mgr, rem, hc, rcv>>

\* BQueue::pop() is called: cv.wait returns at once if an element is there,
\* and the element is taken; otherwise the caller blocks
QPop ==
  /\ ~bq.waiting
  /\ IF BQEmpty(bq.q)
       THEN bq' = [bq EXCEPT !.waiting = TRUE]
       ELSE bq' = [bq EXCEPT !.q = BQPop(@)[3], !.popped = Append(@, BQPop(bq.q)[1])]
  /\ UNCHANGED <<msgs, ginfo, msgq, act, fast_send_mutex, stack, fatal, hlog, hooks, cnt, scn, mgr, rem, hc, rcv>>

\* the blocked caller of pop() is woken, finds an element and takes it
QWake ==
  /\ bq.waiting
  /\ ~BQEmpty(bq.q)
  /\ bq' = [bq EXCEPT !.q = BQPop(@)[3], !.popped = Append(@, BQPop(bq.q)[1]), !.waiting = FALSE]
  /\ UNCHANGED <<msgs, ginfo, msgq, act, fast_send_mutex, stack, fatal, hlog, hooks, cnt, scn, mgr, rem, hc, rcv>>

QNext == QPush \/ QPop \/ QWake

QSpec == QInit /\ [][QNext]_vars


(***************************************************************************)
(* C24. The ring and the overflow deque together behave as one unbounded    *)
(* FIFO queue, for every ring capacity: what has been popped, followed by   *)
(* the ring and then the overflow, is what has been pushed, in order; a     *)
(* push is always possible; a pop call blocks exactly when both buffers are *)
(* empty, and a blocked pop goes on as soon as an element is there; while   *)
(* the overflow is non-empty a push appends to the overflow and leaves the  *)
(* ring alone, and the overflow empties only after the ring has.            *)
(***************************************************************************)
IsPush == Len(bq'.pushed) = Len(bq.pushed) + 1
IsPopCall == ~bq.waiting /\ bq'.pushed = bq.pushed

C24_Fifo == bq.popped \o bq.q.cb \o bq.q.overflow_ = bq.pushed

C24_Ring == Len(bq.q.cb) <= bq.q.n

C24_PushNeverBlocks == Len(bq.pushed) < MaxPush => ENABLED QPush

C24_WokenWhenNonEmpty == (bq.waiting /\ ~BQEmpty(bq.q)) => ENABLED QWake

C24_Step ==
  /\ IsPopCall => (bq'.waiting <=> BQEmpty(bq.q))
  /\ IsPopCall /\ ~BQEmpty(bq.q) => Len(bq'.popped) = Len(bq.popped) + 1
  /\ IsPush /\ bq.q.overflow_ # <<>> =>
       /\ bq'.q.overflow_ = Append(bq.q.overflow_, bq'.pushed[Len(bq'.pushed)])
       /\ bq'.q.cb = bq.q.cb
  /\ IsPush /\ bq.q.overflow_ = <<>> /\ Len(bq.q.cb) < bq.q.n =>
       bq'.q.cb = Append(bq.q.cb, bq'.pushed[Len(bq'.pushed)])
  /\ (bq.q.overflow_ # <<>> /\ bq'.q.overflow_ = <<>>) => bq.q.cb = <<>>

C24_MailboxIsFifo ==
  /\ [](C24_Fifo /\ C24_Ring /\ C24_PushNeverBlocks /\ C24_WokenWhenNonEmpty)
  /\ [][C24_Step]_vars

\* elements have been popped in order, the ring is empty and has room, and
\* the overflow still holds the last elements pushed
C24_Witness ==
  /\ Len(bq.pushed) = MaxPush
  /\ bq.popped # <<>>
  /\ bq.q.cb = <<>>
  /\ Len(bq.q.overflow_) >= 2


(***************************************************************************)
(* A Group with its members on its worker thread G, and an external thread  *)
(* that sends the Group one Start, sends messages to a member and calls     *)
(* terminate() on a member.                                                 *)
(***************************************************************************)
GroupScenario ==
  [threads |-> {"G", "X"}, targets |-> {"M2"}, term |-> {"M1"},
   senders |-> {Null, "A"}, fsenders |-> {}, max |-> 2 * (Len(members["G"]) + 1) + MaxMsgs - 1]

GInit ==
  /\ scn = GroupScenario
  /\ msgs = <<>>
  /\ ginfo = <<>>
  /\ msgq = [a \in Actors |-> BQueue(ACTOR_BQUEUE_SIZE)]
  /\ act = [a \in Actors |-> NewActor]
  /\ fast_send_mutex = [a \in Actors |-> Null]
  /\ stack = [t \in Threads |->
               IF t \notin scn.threads THEN <<>>
               ELSE IF t = "X" THEN <<Frame("ext", Null, 0, "body")>>
               ELSE <<Frame("loop", t, 0, "init")>>]
  /\ fatal = Null
  /\ hlog = [a \in Actors |-> <<>>]
  /\ hooks = [a \in Actors |-> [init |-> 0, end |-> 0]]
  /\ cnt = [sent |-> 0, dropped |-> 0, popped |-> 0, resent |-> 0]
  /\ mgr = NewManager({}, {}, EmptyMap)
  /\ rem = NewRemote
  /\ bq = NewBQ(ACTOR_BQUEUE_SIZE)
  /\ hc = NewHandlers(<<>>)
  /\ rcv = NewReceiver

\* the external thread's group.send(new msg::Start(), sender), once
GroupStart(t, sender) ==
  /\ CanCall(t)
  /\ Top(t).k = "ext"
  /\ \A m \in 1..Len(msgs) : ginfo[m].how # "send" \/ msgs[m].id # StartId
  /\ CallSend(t, "G", StartId, sender)

\* the external thread's member->send(new Message_N<AppId>, sender)
MemberSend(t, b, sender) ==
  /\ CanCall(t)
  /\ Top(t).k = "ext"
  /\ Cardinality({m \in 1..Len(msgs) : msgs[m].id = AppId}) < MaxMsgs - 1
  /\ CallSend(t, b, AppId, sender)

\* the external thread's member->terminate(), once
MemberTerminate(t, b) ==
  /\ CanCall(t)
  /\ Top(t).k = "ext"
  /\ \A m \in 1..Len(msgs) : ginfo[m].how # "terminate"
  /\ CallTerminate(t, b)

GNext ==
  \E t \in Threads :
    \/ WorkerInit(t)
    \/ WorkerPop(t)
    \/ WorkerCheck(t)
    \/ PmiLock(t)
    \/ PmiUnlock(t)
    \/ FsLock(t)
    \/ FsReturn(t)
    \/ Forward(t)
    \/ FanCall(t)
    \/ FanEnd(t)
    \/ \E sender \in scn.senders : GroupStart(t, sender)
    \/ \E b \in scn.targets, sender \in scn.senders : MemberSend(t, b, sender)
    \/ \E b \in scn.term : MemberTerminate(t, b)
    \/ HandlerSkip(t)

GroupSpec == GInit /\ [][GNext]_vars


(***************************************************************************)
(* One actor and its dispatches: the constructor registers handlers for     *)
(* some classes; then messages of every class are dispatched, and handlers  *)
(* are registered, in any order.                                            *)
(***************************************************************************)
HInit ==
  /\ scn = [threads |-> {}, targets |-> {}, term |-> {}, senders |-> {}, fsenders |-> {}, max |-> 0]
  /\ msgs = <<>>
  /\ ginfo = <<>>
  /\ msgq = [a \in Actors |-> BQueue(ACTOR_BQUEUE_SIZE)]
  /\ act = [a \in Actors |-> NewActor]
  /\ fast_send_mutex = [a \in Actors |-> Null]
  /\ stack = [t \in Threads |-> <<>>]
  /\ fatal = Null
  /\ hlog = [a \in Actors |-> <<>>]
  /\ hooks = [a \in Actors |-> [init |-> 0, end |-> 0]]
  /\ cnt = [sent |-> 0, dropped |-> 0, popped |-> 0, resent |-> 0]
  /\ mgr = NewManager({}, {}, EmptyMap)
  /\ rem = NewRemote
  /\ bq = NewBQ(ACTOR_BQUEUE_SIZE)
  /\ \E S \in SUBSET MessageTypes : hc = NewHandlers([t \in S |-> <<"on", t>>])
  /\ rcv = NewReceiver

\* a dispatch of a message of class type, by process_message_internal or by
\* fast_send.  A call through a pointer read from outside handler_cache ends
\* the process.
CallHandler(type) ==
  /\ fatal = Null
  /\ \E f0_read \in {NoHandler, <<"wild", "">>}, flag_read \in BOOLEAN :
       /\ hc' = call_handler(hc, type, f0_read, flag_read)
       /\ fatal' = IF hc'.last.ran = <<"wild", "">> THEN "call through an invalid pointer" ELSE fatal
  /\ UNCHANGED <<msgs, ginfo, msgq, act, fast_send_mutex, stack, hlog, hooks, cnt, scn, mgr, rem, bq, rcv>>

\* MESSAGE_HANDLER(type, ..) executed after the constructor
Register(type) ==
  /\ fatal = Null
  /\ hc' = register_handler(hc, type, <<"late", type>>)
  /\ UNCHANGED <<msgs, ginfo, msgq, act, fast_send_mutex, stack, fatal, hlog, hooks, cnt, scn, mgr, rem, bq, rcv>>

HNext ==
  \/ \E type \in MessageTypes : CallHandler(type)
  \/ \E type \in MessageTypes : Register(type)

HandlerSpec == HInit /\ [][HNext]_vars


(***************************************************************************)
(* C21. Exactly one local dispatch per remote frame, in order: for every    *)
(* application actor, the messages the Receiver of its process has sent to  *)
(* it (those it has handled, then those in its mailbox) are, one for one    *)
(* and in the order of receipt, the decoded payloads of the frames received *)
(* that name it and whose type is registered; a frame with a sender comes   *)
(* with a reply proxy for that sender, an anonymous one with none.          *)
(***************************************************************************)
\* the frames received so far that are for actor a and decode
FramesFor(a) ==
  LET ForA(f) ==
        /\ f.p = ProcOf[a]
        /\ f.envelope.receiver \in DOMAIN registry_[f.p]
        /\ registry_[f.p][f.envelope.receiver] = a
        /\ f.envelope.message_type \in WireNames(f.p)
  IN  SelectSeq(rem.frames, ForA)

\* the sends to actor a so far, in order: handled, then queued
SendsTo(a) ==
  LET ByA(d) == d.a = a
      h == SelectSeq(rem.done, ByA)
  IN  [i \in 1..Len(h) |-> [m |-> h[i].m, sender |-> h[i].reply_to]] \o rem.mbox[a]

C21_OneDispatchPerFrame ==
  \A a \in AppActors :
    /\ Len(SendsTo(a)) = Len(FramesFor(a))
    /\ \A i \in 1..Len(FramesFor(a)) :
         LET e == FramesFor(a)[i].envelope
             d == SendsTo(a)[i]
         IN  /\ get_type_name(ProcOf[a], d.m.id) = e.message_type
             /\ serialize(d.m) = e.message
             /\ is_null(d.sender) <=> e.sender_actor = Null
             /\ ~is_null(d.sender) =>
                  /\ rem.proxies[d.sender.p][d.sender.proxy].remote_actor_ = e.sender_actor
                  /\ rem.proxies[d.sender.p][d.sender.proxy].remote_endpoint_ = e.sender_endpoint

\* "pong" has been sent two Pings, decoded from two frames, and has handled
\* the first
C21_Witness ==
  /\ Len(FramesFor("pong")) = 2
  /\ FramesFor("pong")[1].envelope.message # FramesFor("pong")[2].envelope.message
  /\ Len(rem.mbox["pong"]) = 1
  /\ \E i \in 1..Len(rem.done) : rem.done[i].a = "pong"

(***************************************************************************)
(* C22. A send_to of a message whose identity is not registered enqueues    *)
(* nothing at the Sender (every request ever queued stems from a send_to    *)
(* that did not throw), and the calling actor keeps running.  The code      *)
(* violates the second half: the error is reported by throwing, and what a  *)
(* handler does not catch itself meets the noexcept of call_handler and     *)
(* Actor::operator(), so that std::terminate ends the whole process.        *)
(***************************************************************************)
\* the send_to calls so far that threw, and those that did not
Thrown == {i \in 1..Len(rem.calls) : rem.calls[i].thrown}
NotThrown == {i \in 1..Len(rem.calls) : ~rem.calls[i].thrown}

\* the requests queued at the Senders so far: waiting there, on the wire, or
\* received
Requests ==
  Len(rem.sendq["A"]) + Len(rem.sendq["B"]) + Len(rem.wire["A"]) + Len(rem.wire["B"])
    + Len(rem.frames)

C22_UnregisteredDropped ==
  /\ Requests = Cardinality(NotThrown)
  /\ Thrown # {} => fatal = Null

(***************************************************************************)
(* C23. In every envelope the Sender transmits, sender_actor and            *)
(* sender_endpoint are both null or both set, and they are null exactly if  *)
(* the message was sent by no actor.  Step by step: a send_to call queues a *)
(* request whose sender name and endpoint are both empty or both set, and   *)
(* empty exactly if the message comes from no actor; the Sender's worker    *)
(* turns a request into an envelope whose pair is null exactly if the       *)
(* request's sender name is empty.  The code violates the first step for a  *)
(* reply that RemoteReplyProxy::send forwards for a local actor: it passes  *)
(* nullptr as sender to send_to.                                            *)
(***************************************************************************)
\* the step is a send_to call on p's Sender that queued a request
Queues(p) ==
  /\ Len(rem'.calls) = Len(rem.calls) + 1
  /\ rem'.calls[Len(rem'.calls)].p = p
  /\ ~rem'.calls[Len(rem'.calls)].thrown

\* the step is SenderRun(p): only it takes a request from p's Sender
Transmits(p) == rem.sendq[p] # <<>> /\ Len(rem'.sendq[p]) = Len(rem.sendq[p]) - 1

C23_Step ==
  \A p \in Procs :
    /\ Queues(p) =>
         LET req == rem'.sendq[p][Len(rem'.sendq[p])]
             call == rem'.calls[Len(rem'.calls)]
         IN  /\ req.sender_name = "" <=> req.sender_endpoint = ""
             /\ req.sender_name = "" <=> call.from = Null
    /\ Transmits(p) =>
         LET req == Head(rem.sendq[p])
             q == connect(req.endpoint)
             e == parse(rem'.wire[q][Len(rem'.wire[q])])
         IN  /\ e.sender_actor = Null <=> e.sender_endpoint = Null
             /\ e.sender_actor = Null <=> req.sender_name = ""

FanMsgs(id) ==
  SelectSeq([m \in 1..Len(msgs) |-> m],
            LAMBDA m : ginfo[m].how = "fast" /\ msgs[m].id = id)

InSomeMailbox(m) ==
  \E q \in Queued : \E i \in 1..BQLength(msgq[q]) : BQContents(msgq[q])[i] = m

\* the Group's handler for the message of identity id sent to it is done
FanDone(id) ==
  \E m \in 1..Len(msgs) :
    /\ msgs[m].id = id
    /\ ginfo[m].how \in {"send", "terminate"}
    /\ msgs[m].frees = 1

C25_FanOut ==
  \A id \in {StartId, ShutdownId} :
    LET F == FanMsgs(id)
        mem == members["G"]
    IN  /\ Len(F) <= Len(mem)
        /\ FanDone(id) => Len(F) = Len(mem) /\ ginfo[F[Len(F)]].res = "returned"
        /\ \A k \in 1..Len(mem) :
             IF k > Len(F)
               THEN IF id = StartId THEN hooks[mem[k]].init = 0 ELSE hooks[mem[k]].end = 0
               ELSE LET m == F[k]
                        b == mem[k]
                    IN  /\ ginfo[m].to = b
                        /\ ~InSomeMailbox(m) /\ ginfo[m].pops = 0
                        /\ Runs(b, m) <= 1
                        /\ Runs(b, m) = 1 =>
                             /\ msgs[m].sender = "G" /\ msgs[m].is_fast
                             /\ \A i \in 1..Len(hlog[b]) : hlog[b][i].m = m => hlog[b][i].fast
                        /\ ginfo[m].res = "returned" => Runs(b, m) = 1
                        /\ k < Len(F) => ginfo[m].res = "returned"
                        /\ id = StartId => hooks[b].init = 1
                        /\ id = ShutdownId =>
                             /\ hooks[b].end <= 1
                             /\ hooks[b].end = 1 => ginfo[m].res = "returned"
                             /\ (k < Len(F) \/ FanDone(id)) => hooks[b].end = 1

\* the Group has handled a Start, forwarded a message to a member and
\* handled a Shutdown, and each fan-out has served every member
C25_Witness ==
  /\ FanDone(StartId)
  /\ FanDone(ShutdownId)
  /\ \E i \in 1..Len(hlog["M2"]) : ~hlog["M2"][i].fast
  /\ \A b \in {"M1", "M2"} : hooks[b].init = 1 /\ hooks[b].end = 1

(***************************************************************************)
(* C26. A message sent with send() to a member of the Group, other than a   *)
(* Start or Shutdown the Group did not send, is appended to the Group's     *)
(* mailbox and to no other; the destination member's handler runs for it at *)
(* most once and no other member's does; while that handler runs the        *)
(* member's reply_to is the message's sender; the message is deleted at     *)
(* most once, by the Group's process_message_internal and never by the      *)
(* member's; and once the Group's process_message_internal for it has       *)
(* returned, the handler has run once and the message is deleted once.      *)
(***************************************************************************)
Forwarded ==
  {m \in 1..Len(msgs) : /\ ginfo[m].how = "send"
                        /\ ginfo[m].res = "queued"
                        /\ is_part_of_group(ginfo[m].to)
                        /\ msgs[m].id \notin {StartId, ShutdownId}}

OnStack(t, k, a, m) ==
  \E i \in 1..Len(stack[t]) : stack[t][i].k = k /\ stack[t][i].a = a /\ stack[t][i].m = m

C26_Inv ==
  \A m \in Forwarded :
    LET b == ginfo[m].to
        g == GroupOf[b]
    IN  /\ \A a \in Actors \ {g} : \A i \in 1..BQLength(msgq[a]) : BQContents(msgq[a])[i] # m
        /\ ginfo[m].pops <= 1
        /\ Runs(b, m) <= 1
        /\ \A a \in Actors \ {b, g} : Runs(a, m) = 0
        /\ \A t \in Threads : OnStack(t, "h", b, m) => act[b].reply_to = msgs[m].sender
        /\ msgs[m].frees <= 1
        /\ msgs[m].frees = 1 => Runs(b, m) = 1 /\ ginfo[m].pops = 1
        /\ (ginfo[m].pops = 1 /\ ~OnStack(g, "pmi", g, m)) => msgs[m].frees = 1

C26_Step ==
  /\ Len(msgs') = Len(msgs) + 1 =>
       LET m == Len(msgs') IN
       m \in Forwarded' =>
         /\ BQContents(msgq'[GroupOf[ginfo'[m].to]]) = Append(BQContents(msgq[GroupOf[ginfo'[m].to]]), m)
         /\ \A a \in Actors \ {GroupOf[ginfo'[m].to]} : msgq'[a] = msgq[a]
  /\ \A m \in Forwarded :
       msgs'[m].frees # msgs[m].frees =>
         LET g == GroupOf[ginfo[m].to] IN
         /\ Top(g).k = "pmi" /\ Top(g).a = g /\ Top(g).m = m
         /\ stack'[g] # stack[g]

C26_GroupForward == [](C26_Inv) /\ [][C26_Step]_vars

\* a message that actor A is the sender of went through the Group's mailbox
\* to member M2, whose handler ran with reply_to = A, and has been deleted
C26_Witness ==
  \E m \in Forwarded :
    /\ ginfo[m].to = "M2"
    /\ msgs[m].sender = "A"
    /\ Runs("M2", m) = 1
    /\ act["M2"].reply_to = "A"
    /\ msgs[m].frees = 1

(***************************************************************************)
(* C27. After a dispatch the runtime has deleted the dispatched message     *)
(* exactly once.  No message is deleted twice; a message popped by a worker *)
(* is deleted once its process_message_internal has returned (the Group's,  *)
(* when it was forwarded to a member); and a message dispatched by          *)
(* fast_send is deleted once fast_send has returned.  The code violates the *)
(* last part: fast_send deletes nothing, and the Group's fan-out drops its  *)
(* only pointer to the message.                                             *)
(***************************************************************************)
InDispatch(m) == \E t \in Threads : \E i \in 1..Len(stack[t]) :
                   stack[t][i].k = "pmi" /\ stack[t][i].m = m

C27_Async ==
  \A m \in 1..Len(msgs) :
    /\ msgs[m].frees <= 1
    /\ (ginfo[m].how \in {"send", "terminate"} /\ ginfo[m].pops = 1 /\ ~InDispatch(m)) =>
         msgs[m].frees = 1

C27_Fast ==
  \A m \in 1..Len(msgs) :
    (ginfo[m].how = "fast" /\ ginfo[m].res = "returned" /\ Runs(ginfo[m].to, m) = 1) =>
      msgs[m].frees = 1

C27_FreedOnce == C27_Async /\ C27_Fast

(***************************************************************************)
(* C28. A dispatch of a message whose identity is 512 or more touches       *)
(* neither handler_cache nor dont_have_handler (no index outside 0..511 is  *)
(* used, nothing outside the vectors is written, no pointer read from       *)
(* outside is called); it looks the class up in the handler table and runs  *)
(* the handler found there, or process_message.  The code violates it:      *)
(* call_handler indexes both vectors with the identity without a test.      *)
(***************************************************************************)
\* the step is a dispatch
Dispatched == hc'.tick # hc.tick

\* what the lookup by runtime type delivers for a message of class type
SlowPath(type) ==
  IF type \in DOMAIN hc.handlers THEN hc.handlers[type] ELSE <<"process_message", "">>

C28_NoAccess == ~InCache(hc.last.id) => (~hc.last.oob /\ ~hc.corrupt /\ fatal = Null)

C28_Step ==
  (Dispatched /\ ~InCache(hc'.last.id)) =>
    /\ hc'.last.find
    /\ hc'.last.ran = SlowPath(hc'.last.type)
    /\ hc'.handler_cache = hc.handler_cache
    /\ hc'.dont_have_handler = hc.dont_have_handler

C28_BigBypassesCache == []C28_NoAccess /\ [][C28_Step]_vars

(***************************************************************************)
(* C29. Whenever a dispatch takes the handler from handler_cache, that      *)
(* handler is the one the lookup by runtime type in the handler table would *)
(* deliver for the same message.  As stated, for every sequence of          *)
(* dispatches, the code violates it: the cache is indexed by the identity   *)
(* and the table by the class, so a class that shares its identity with a   *)
(* class dispatched before gets that class's handler, and a handler         *)
(* registered after the cache was filled is not seen.  It holds for a class *)
(* that alone has its identity among the classes dispatched and whose       *)
(* handler was not registered after a dispatch of that identity.            *)
(***************************************************************************)
FromCache == Dispatched /\ hc'.last.path = "cache" /\ InCache(hc'.last.id)

C29_Original ==
  [][FromCache => hc'.last.ran = SlowPath(hc'.last.type)]_vars

\* no other class dispatched so far has the identity of class type
AloneInIdentity(type) ==
  \A t \in hc.seen : MessageIdOf[t] = MessageIdOf[type] => t = type

C29_FastPathEquivalence ==
  [][(FromCache /\ AloneInIdentity(hc'.last.type) /\ hc'.last.type \notin hc.late)
       => hc'.last.ran = SlowPath(hc'.last.type)]_vars

\* Ping was dispatched after Pong, twice, the second time through the cache,
\* and no class sharing an identity was dispatched
C29_Witness ==
  /\ hc.last.type = "Ping" /\ hc.last.path = "cache"
  /\ hc.seen = {"Ping", "Pong"}
  /\ hc.late = {}
  /\ DOMAIN hc.handler_cache = {PingId, PongId}

(***************************************************************************)
(* C30. A dispatch of a message whose class has no registered handler runs  *)
(* process_message and no registered handler; if the negative flag of its   *)
(* identity is not set yet, the table is consulted and the flag is set; if  *)
(* it is set, the table is not consulted.  As stated, for every such        *)
(* message, the code violates it: an identity of 512 or more has no flag,   *)
(* and a class that shares its identity with a class whose handler is       *)
(* cached gets that handler.  It holds for identities below 512 whose cache *)
(* entry is empty.                                                          *)
(***************************************************************************)
Unhandled == Dispatched /\ hc'.last.type \notin DOMAIN hc.handlers

C30_Rule ==
  /\ hc'.last.ran = <<"process_message", "">>
  /\ hc'.last.id \notin hc.dont_have_handler =>
       hc'.last.find /\ hc'.last.id \in hc'.dont_have_handler
  /\ hc'.last.id \in hc.dont_have_handler =>
       ~hc'.last.find /\ hc'.dont_have_handler = hc.dont_have_handler

C30_Original == [][Unhandled => C30_Rule]_vars

C30_NoHandlerFallback ==
  [][(Unhandled /\ InCache(hc'.last.id) /\ hc'.last.id \notin DOMAIN hc.handler_cache)
       => C30_Rule]_vars

\* Echo, which has no handler, was dispatched a second time, on the negative
\* flag that its first dispatch set
C30_Witness ==
  /\ hc.last.type = "Echo" /\ hc.last.path = "flag"
  /\ "Echo" \notin DOMAIN hc.handlers
  /\ hc.seen = {"Echo"}
  /\ hc.dont_have_handler = {PingId}

(***************************************************************************)
(* C31. Every handler_cache entry and every negative flag of an actor was   *)
(* set by the actor's own worker thread (for a member of a Group, the       *)
(* Group's).  The code violates it: fast_send runs call_handler in the      *)
(* calling thread, and Manager::init calls fast_send for every managed      *)
(* actor before the actor's thread exists.                                  *)
(***************************************************************************)
C31_CacheWrittenByOwnWorker ==
  \A a \in Actors : \A id \in DOMAIN act[a].cache_by : act[a].cache_by[id] = QueueOf(a)

(***************************************************************************)
(* C32. When a Receiver takes a frame that names a sender and is for an     *)
(* actor it knows, and decoding the payload fails - the wire name is not    *)
(* registered, or the registered function fails on the payload - it sends   *)
(* one Reject to that sender and dispatches nothing.  The code violates the *)
(* second case: the registered function fails by throwing, and on_continue  *)
(* catches the exception and sends nothing.                                 *)
(***************************************************************************)
\* the step is a Receiver taking a frame; Received is the frame
Receives == Len(rem'.frames) = Len(rem.frames) + 1
Received == rem'.frames[Len(rem'.frames)]

DecodeFails(f) ==
  LET msg == deserialize(f.p, f.envelope.message_type, f.envelope.message)
  IN  is_null(msg) \/ is_thrown(msg)

RejectSent(f) ==
  /\ Len(rem'.calls) = Len(rem.calls) + 1
  /\ LET call == rem'.calls[Len(rem'.calls)] IN
       /\ call.p = f.p /\ call.by = "ZmqReceiver"
       /\ call.msg.id = RejectId
       /\ call.msg.message_type = f.envelope.message_type
       /\ call.actor_name = f.envelope.sender_actor
       /\ call.endpoint = f.envelope.sender_endpoint

C32_Step ==
  (/\ Receives
   /\ has_sender(Received.envelope)
   /\ Received.envelope.receiver \in DOMAIN registry_[Received.p]
   /\ DecodeFails(Received))
    => (RejectSent(Received) /\ rem'.mbox = rem.mbox)

C32_DecodeFailureRejects == [][C32_Step]_vars

(***************************************************************************)
(* The polling loop of one ZmqReceiver.  Manager::init delivers Start, the  *)
(* worker thread pops and dispatches the mailbox, and another thread calls  *)
(* terminate().  running_ is a plain bool that the worker reads and the     *)
(* other thread writes; the steps below interleave the reads and the write. *)
(***************************************************************************)
MaxPoll == 3
Outcomes == {"frame", "timeout", "zmq::error_t", "nlohmann::json::exception"}

\* Actor::send of the Receiver to itself: nothing once terminated is set
rcv_send(r, m) ==
  IF r.terminated THEN r ELSE [r EXCEPT !.msgq = Append(@, m)]

on_start_twice(r) ==
  rcv_send(rcv_send([r EXCEPT !.running_ = TRUE], "Continue"), "Continue")

\* ZmqReceiver::on_start
on_start(r) ==
  rcv_send([r EXCEPT !.running_ = TRUE], "Continue")

\* the Receiver is constructed; Manager::init has not run
RcvInit ==
  /\ scn = [threads |-> {}, targets |-> {}, term |-> {}, senders |-> {}, fsenders |-> {}, max |-> 0]
  /\ msgs = <<>>
  /\ ginfo = <<>>
  /\ msgq = [a \in Actors |-> BQueue(ACTOR_BQUEUE_SIZE)]
  /\ act = [a \in Actors |-> NewActor]
  /\ fast_send_mutex = [a \in Actors |-> Null]
  /\ stack = [t \in Threads |-> <<>>]
  /\ fatal = Null
  /\ hlog = [a \in Actors |-> <<>>]
  /\ hooks = [a \in Actors |-> [init |-> 0, end |-> 0]]
  /\ cnt = [sent |-> 0, dropped |-> 0, popped |-> 0, resent |-> 0]
  /\ mgr = NewManager({}, {}, EmptyMap)
  /\ rem = NewRemote
  /\ bq = NewBQ(1)
  /\ hc = NewHandlers(<<>>)
  /\ rcv = NewReceiver

\* Manager::init: fast_send(new msg::Start()) runs on_start, then the worker
\* thread is created
RcvStart ==
  /\ rcv.pc = "init"
  /\ rcv' = [on_start(rcv) EXCEPT !.pc = "pop"]
  /\ UNCHANGED <<msgs, ginfo, msgq, act, fast_send_mutex, stack, fatal, hlog, hooks, cnt, scn, mgr, rem, bq, hc>>

\* Actor::operator(): msgq->pop() and the dispatch to the handler
RcvPop ==
  /\ rcv.pc = "pop"
  /\ rcv.msgq # <<>>
  /\ Head(rcv.msgq) = "Continue" => rcv.polls < MaxPoll
  /\ rcv' = [rcv EXCEPT !.cur = Head(rcv.msgq), !.msgq = Tail(@),
                        !.recvs = 0, !.enq = 0,
                        !.polls = IF Head(rcv.msgq) = "Continue" THEN @ + 1 ELSE @,
                        !.pc = IF Head(rcv.msgq) = "Continue"
                                 THEN "on_continue" ELSE "return"]
  /\ UNCHANGED <<msgs, ginfo, msgq, act, fast_send_mutex, stack, fatal, hlog, hooks, cnt, scn, mgr, rem, bq, hc>>

\* on_continue: if (!running_) return;
RcvEnter ==
  /\ rcv.pc = "on_continue"
  /\ rcv' = [rcv EXCEPT !.pc = IF rcv.running_ THEN "recv" ELSE "return",
                        !.observed = @ \/ ~rcv.running_]
  /\ UNCHANGED <<msgs, ginfo, msgq, act, fast_send_mutex, stack, fatal, hlog, hooks, cnt, scn, mgr, rem, bq, hc>>

\* on_continue: socket_.recv, parse and handle_remote_message, with the two
\* catch clauses; every outcome falls through to the second test
RcvRecv(outcome) ==
  /\ rcv.pc = "recv"
  /\ rcv' = [rcv EXCEPT !.outcome = outcome, !.recvs = @ + 1, !.pc = "test"]
  /\ UNCHANGED <<msgs, ginfo, msgq, act, fast_send_mutex, stack, fatal, hlog, hooks, cnt, scn, mgr, rem, bq, hc>>

\* on_continue: if (running_) ...
RcvTest ==
  /\ rcv.pc = "test"
  /\ rcv' = [rcv EXCEPT !.pc = IF rcv.running_ THEN "send" ELSE "return",
                        !.observed = @ \/ ~rcv.running_]
  /\ UNCHANGED <<msgs, ginfo, msgq, act, fast_send_mutex, stack, fatal, hlog, hooks, cnt, scn, mgr, rem, bq, hc>>

\* on_continue: send(new msg::Continue(), this)
RcvSend ==
  /\ rcv.pc = "send"
  /\ rcv' = [rcv_send(rcv, "Continue") EXCEPT
               !.enq = @ + 1, !.pc = "return",
               !.late = IF rcv.running_ THEN @ ELSE @ + 1]
  /\ UNCHANGED <<msgs, ginfo, msgq, act, fast_send_mutex, stack, fatal, hlog, hooks, cnt, scn, mgr, rem, bq, hc>>

\* Actor::operator(): the handler has returned; break on Shutdown or
\* terminated, then terminated = true and end()
RcvReturn ==
  /\ rcv.pc = "return"
  /\ rcv' = IF rcv.cur = "Shutdown" \/ rcv.terminated
              THEN [rcv EXCEPT !.terminated = TRUE, !.pc = "exit"]
              ELSE [rcv EXCEPT !.pc = "pop"]
  /\ UNCHANGED <<msgs, ginfo, msgq, act, fast_send_mutex, stack, fatal, hlog, hooks, cnt, scn, mgr, rem, bq, hc>>

\* ZmqReceiver::terminate, called by another thread: running_ = false
TermStore ==
  /\ rcv.ext = "idle"
  /\ rcv.pc # "init"
  /\ rcv' = [rcv EXCEPT !.running_ = FALSE, !.ext = "stored"]
  /\ UNCHANGED <<msgs, ginfo, msgq, act, fast_send_mutex, stack, fatal, hlog, hooks, cnt, scn, mgr, rem, bq, hc>>

\* ZmqReceiver::terminate: Actor::terminate() sends the Shutdown
TermSend ==
  /\ rcv.ext = "stored"
  /\ rcv' = [rcv_send(rcv, "Shutdown") EXCEPT !.terminate_called = TRUE, !.ext = "done"]
  /\ UNCHANGED <<msgs, ginfo, msgq, act, fast_send_mutex, stack, fatal, hlog, hooks, cnt, scn, mgr, rem, bq, hc>>

RcvNext ==
  \/ RcvStart
  \/ RcvPop
  \/ RcvEnter
  \/ \E outcome \in Outcomes : RcvRecv(outcome)
  \/ RcvTest
  \/ RcvSend
  \/ RcvReturn
  \/ TermStore
  \/ TermSend

ReceiverSpec == RcvInit /\ [][RcvNext]_vars

(***************************************************************************)
(* C33. After Start, while running_ is true, exactly one Continue is        *)
(* outstanding: queued, or in its handler before the handler has sent the   *)
(* next one.  A Continue handler makes at most one receive and sends at     *)
(* most one Continue, and exactly one of each, whatever the receive gave,   *)
(* if running_ is still true when it returns.  Once a handler has read      *)
(* running_ as false there is no further receive and no further Continue;   *)
(* at most one Continue is queued after terminate() set running_ to false,  *)
(* by the handler that had read running_ before, and it is never received   *)
(* for.                                                                     *)
(***************************************************************************)
InContinue == rcv.cur = "Continue" /\ rcv.pc \in {"on_continue", "recv", "test", "send"}

Outstanding ==
  Cardinality({i \in 1..Len(rcv.msgq) : rcv.msgq[i] = "Continue"})
    + (IF InContinue THEN 1 ELSE 0)

EnqueuesContinue ==
  /\ Len(rcv'.msgq) > Len(rcv.msgq)
  /\ rcv'.msgq[Len(rcv'.msgq)] = "Continue"

C33_Inv ==
  /\ (rcv.pc # "init" /\ rcv.running_ /\ ~rcv.terminated) => Outstanding = 1
  /\ rcv.recvs <= 1 /\ rcv.enq <= 1
  /\ rcv.late <= 1

C33_Step ==
  /\ (rcv.pc = "return" /\ rcv'.pc # "return" /\ rcv.cur = "Continue" /\ rcv.running_)
       => (rcv.recvs = 1 /\ rcv.enq = 1)
  /\ EnqueuesContinue => ~rcv.observed
  /\ rcv'.recvs > rcv.recvs => (~rcv.observed /\ rcv.late = 0)

C33_Polling == []C33_Inv /\ [][C33_Step]_vars

\* as stated: no Continue is queued once terminate() has been called
C33_Original == [][EnqueuesContinue => rcv.ext = "idle"]_vars

\* terminate() returned after a handler's second test: one late Continue, left
\* in the mailbox when the loop ends, after three polls
C33_Witness ==
  /\ rcv.pc = "exit" /\ rcv.ext = "done"
  /\ rcv.late = 1 /\ rcv.polls = MaxPoll
  /\ rcv.msgq = <<"Continue">>

(***************************************************************************)
(* C34. fast_send(m, s) on an actor whose terminated flag is set stamps m   *)
(* (sender = s, is_fast, last), clears reply_message, sets using_fast_send  *)
(* and adds one to msg_cnt, and then returns an empty reply: it calls no    *)
(* handler and no process_message for m.                                    *)
(***************************************************************************)
\* thread t takes the lock of a fast_send on a terminated actor
FsOnTerminated(t) ==
  /\ At(t, "fs", "lock")
  /\ stack'[t] # stack[t]
  /\ act[Top(t).a].terminated
  /\ Top(t).a # Top(t).snd

C34_Inv ==
  \A m \in Msgs :
    (ginfo[m].how = "fast" /\ ginfo[m].tt) =>
      /\ \A a \in Actors : \A i \in 1..Len(hlog[a]) : hlog[a][i].m # m
      /\ \A f \in Frames : FrameAt(f).m = m => FrameAt(f).k = "fs"
      /\ ginfo[m].res = "returned" => ginfo[m].ret = 0

C34_Step ==
  \A t \in Threads :
    FsOnTerminated(t) =>
      LET a == Top(t).a
          m == Top(t).m
      IN  /\ msgs'[m].sender = Top(t).snd
          /\ msgs'[m].is_fast /\ msgs'[m].last
          /\ act'[a].reply_message = 0
          /\ act'[a].using_fast_send
          /\ act'[a].msg_cnt = act[a].msg_cnt + 1
          /\ hlog' = hlog
          /\ Len(stack'[t]) = Len(stack[t])
          /\ ginfo'[m].tt

C34_FastSendTerminated == []C34_Inv /\ [][C34_Step]_vars

\* the actor's loop has ended on a Shutdown; a fast_send on it afterwards has
\* returned nothing and ran nothing
C34_Witness ==
  \E m2 \in Msgs :
    /\ ginfo[m2].how = "fast"
    /\ ginfo[m2].tt /\ ginfo[m2].res = "returned" /\ ginfo[m2].ret = 0
    /\ hooks[ginfo[m2].to].end = 1
    /\ msgs[m2].is_fast /\ msgs[m2].last
    /\ act[ginfo[m2].to].using_fast_send
    /\ act[ginfo[m2].to].reply_message = 0

(***************************************************************************)
(* The dispatch mutexes under contention: the plain actor A on its worker   *)
(* thread, the member M1 on the worker thread of its Group G, and thread X. *)
(* In the first system X sends to A, to M1 and to G itself, and a handler   *)
(* sends to the other actor; in the second X sends to A and to M1 and a     *)
(* handler calls fast_send on the other actor; in the third X calls         *)
(* fast_send and so does every handler.                                     *)
(***************************************************************************)
LockScenarios ==
  { [threads |-> {"A", "G", "X"}, targets |-> {"A", "M1", "G"}, term |-> {},
     senders |-> {Null}, fsenders |-> {}, max |-> MaxMsgs, handlers |-> "send"],
    [threads |-> {"A", "G", "X"}, targets |-> {"A", "M1"}, term |-> {},
     senders |-> {Null}, fsenders |-> {}, max |-> MaxMsgs + 1, handlers |-> "fast_send"],
    [threads |-> {"A", "G", "X"}, targets |-> {"A", "M1"}, term |-> {},
     senders |-> {}, fsenders |-> {Null}, max |-> MaxMsgs, handlers |-> "fast_send"] }

LockInit ==
  /\ scn \in LockScenarios
  /\ msgs = <<>>
  /\ ginfo = <<>>
  /\ msgq = [a \in Actors |-> BQueue(ACTOR_BQUEUE_SIZE)]
  /\ act = [a \in Actors |-> NewActor]
  /\ fast_send_mutex = [a \in Actors |-> Null]
  /\ stack = [t \in Threads |->
               IF t = "X" THEN <<Frame("ext", Null, 0, "body")>>
               ELSE <<Frame("loop", t, 0, "init")>>]
  /\ fatal = Null
  /\ hlog = [a \in Actors |-> <<>>]
  /\ hooks = [a \in Actors |-> [init |-> 0, end |-> 0]]
  /\ cnt = [sent |-> 0, dropped |-> 0, popped |-> 0, resent |-> 0]
  /\ mgr = NewManager({}, {}, EmptyMap)
  /\ rem = NewRemote
  /\ bq = NewBQ(ACTOR_BQUEUE_SIZE)
  /\ hc = NewHandlers(<<>>)
  /\ rcv = NewReceiver

\* the lock_guard of process_message_internal in a thread that holds the same
\* mutex already: as for fast_send, the thread waits for ever (no step) or
\* lock() throws std::system_error
PmiRelock(t) ==
  /\ At(t, "pmi", "lock")
  /\ fast_send_mutex[Top(t).a] = t
  /\ fatal' = "resource deadlock would occur"
  /\ UNCHANGED <<msgs, ginfo, msgq, act, fast_send_mutex, stack, hlog, hooks, cnt, scn, mgr, rem, bq, hc, rcv>>

\* thread X: b->send(new Message_N<AppId>, nullptr)
ExtSend(t, b) ==
  /\ CanCall(t) /\ Top(t).k = "ext"
  /\ CallSend(t, b, AppId, Null)

\* thread X: b->fast_send(new Message_N<AppId>, nullptr)
ExtFastSend(t, b) ==
  /\ CanCall(t) /\ Top(t).k = "ext"
  /\ CallFastSend(t, b, Null)

\* a handler of actor a: b->send(new Message_N<AppId>, this) for another actor b
PeerSend(t, b) ==
  /\ CanCall(t) /\ Top(t).k = "h"
  /\ scn.handlers = "send"
  /\ b # Top(t).a
  /\ CallSend(t, b, AppId, Top(t).a)

\* a handler of actor a: b->fast_send(new Message_N<AppId>, this)
PeerFastSend(t, b) ==
  /\ CanCall(t) /\ Top(t).k = "h"
  /\ scn.handlers = "fast_send"
  /\ b # Top(t).a
  /\ CallFastSend(t, b, Top(t).a)

LockNext ==
  \E t \in Threads :
    \/ WorkerInit(t)
    \/ WorkerPop(t)
    \/ WorkerCheck(t)
    \/ PmiLock(t)
    \/ PmiUnlock(t)
    \/ PmiRelock(t)
    \/ FsLock(t)
    \/ FsReturn(t)
    \/ FsRelock(t)
    \/ Forward(t)
    \/ \E b \in scn.targets : ExtSend(t, b)
    \/ \E b \in scn.targets : ExtFastSend(t, b)
    \/ \E b \in scn.targets : PeerSend(t, b)
    \/ \E b \in scn.targets : PeerFastSend(t, b)
    \/ HandlerSkip(t)
    \/ HandlerReturn(t)

LockSpec == LockInit /\ [][LockNext]_vars

(***************************************************************************)
(* C35. Where handlers use only send and no message is addressed to a Group *)
(* itself, no thread ever waits for a dispatch mutex.  A thread that waits  *)
(* for a mutex it holds itself, or for one whose holder waits for a mutex   *)
(* of the first, never goes on: that is where two actors whose handlers,    *)
(* dispatched by their workers, call fast_send on each other can get, and   *)
(* where a chain A.fast_send -> M1.fast_send -> A.fast_send in one thread   *)
(* does get.                                                                *)
(***************************************************************************)
\* thread t is in the lock of process_message_internal or fast_send and the
\* mutex is held
Waiting(t) ==
  /\ stack[t] # <<>>
  /\ Top(t).k \in {"pmi", "fs"} /\ Top(t).pc = "lock"
  /\ fast_send_mutex[Top(t).a] # Null

Holder(t) == fast_send_mutex[Top(t).a]

Deadlocked(t) ==
  /\ Waiting(t)
  /\ \/ Holder(t) = t
     \/ Waiting(Holder(t)) /\ Holder(Holder(t)) = t

C35_Inv ==
  (scn.handlers = "send" /\ \A m \in Msgs : ginfo[m].to # "G")
    => \A t \in Threads : ~Waiting(t)

C35_Step ==
  \A t \in Threads :
    Deadlocked(t) => (stack'[t] = stack[t] /\ Deadlocked(t)')

ShutdownScenario ==
  [MgrScenario EXCEPT !.max = 2 * Cardinality(Actors) + MaxMsgs - 1]

ShutdownInit ==
  /\ scn = ShutdownScenario
  /\ msgs = <<>>
  /\ ginfo = <<>>
  /\ msgq = [a \in Actors |-> BQueue(ACTOR_BQUEUE_SIZE)]
  /\ act = [a \in Actors |-> NewActor]
  /\ fast_send_mutex = [a \in Actors |-> Null]
  /\ stack = [t \in Threads |->
               IF t = "X" THEN <<[Frame("minit", "Mgr", 0, "start") EXCEPT !.i = 1]>> ELSE <<>>]
  /\ fatal = Null
  /\ hlog = [a \in Actors |-> <<>>]
  /\ hooks = [a \in Actors |-> [init |-> 0, end |-> 0]]
  /\ cnt = [sent |-> 0, dropped |-> 0, popped |-> 0, resent |-> 0]
  /\ mgr = Registered
  /\ rem = NewRemote
  /\ bq = NewBQ(ACTOR_BQUEUE_SIZE)
  /\ hc = NewHandlers(<<>>)
  /\ rcv = NewReceiver

\* the calls that handlers have made: the messages of send and terminate,
\* without the Start that Manager::init sends to the Manager
UserCalls ==
  Cardinality({m \in 1..Len(msgs) :
                 ginfo[m].how \in {"send", "terminate"} /\ msgs[m].id # StartId})

\* a handler: b->send(new Message_N<AppId>, this)
ShutSend(t, b) ==
  /\ UserCalls < MaxMsgs - 1
  /\ CallSend(t, b, AppId, Top(t).a)

\* a handler: b->terminate()
ShutTerminate(t, b) ==
  /\ UserCalls < MaxMsgs - 1
  /\ CallTerminate(t, b)

\* a handler, or main between init() and end(): manager->fast_terminate(),
\* that is fast_send(new msg::Shutdown(), nullptr) on the Manager
MgrFastTerminate(t) ==
  /\ \/ CanCall(t) /\ Top(t).k = "h"
     \/ At(t, "mend", "join") /\ Top(t).i = 1
  /\ \A m \in 1..Len(msgs) : ~(ginfo[m].to = "Mgr" /\ ginfo[m].how = "fast")
  /\ LET m == Len(msgs) + 1 IN
     /\ msgs' = Append(msgs, NewMessage(ShutdownId))
     /\ ginfo' = Append(ginfo, [NoInfo EXCEPT !.by = t, !.to = "Mgr", !.how = "fast"])
     /\ stack' = [stack EXCEPT ![t] =
          PushF(IF Top(t).k = "h" THEN Calling(@) ELSE @, Frame("fs", "Mgr", m, "lock"))]
  /\ UNCHANGED <<msgq, act, fast_send_mutex, fatal, hlog, hooks, cnt, scn, mgr, rem, bq, hc, rcv>>

\* Manager::process_message, Shutdown: actor->end() for the next actor of
\* actor_list, or exit(0) after the last
MgrShutEnd(t) ==
  /\ At(t, "mshut", "end")
  /\ LET i == Top(t).i IN
     IF i > Len(mgr.actor_list)
       THEN /\ fatal' = "exit(0)"
            /\ UNCHANGED <<hooks, stack>>
       ELSE /\ hooks' = [hooks EXCEPT ![list_at(mgr.actor_list, i)].end = @ + 1]
            /\ stack' = [stack EXCEPT ![t] = SetTop(@, [Top(t) EXCEPT !.pc = "fast_terminate"])]
            /\ fatal' = fatal
  /\ UNCHANGED <<msgs, ginfo, msgq, act, fast_send_mutex, hlog, cnt, scn, mgr, rem, bq, hc, rcv>>

\* Manager::process_message, Shutdown: actor->fast_terminate()
MgrShutFast(t) ==
  /\ At(t, "mshut", "fast_terminate")
  /\ LET actor == list_at(mgr.actor_list, Top(t).i)
         m == Len(msgs) + 1
     IN
     /\ msgs' = Append(msgs, NewMessage(ShutdownId))
     /\ ginfo' = Append(ginfo, [NoInfo EXCEPT !.by = t, !.to = actor, !.how = "fast"])
     /\ stack' = [stack EXCEPT ![t] =
          PushF(SetTop(@, [Top(t) EXCEPT !.pc = "terminated"]),
                Frame("fs", actor, m, "lock"))]
  /\ UNCHANGED <<msgq, act, fast_send_mutex, fatal, hlog, hooks, cnt, scn, mgr, rem, bq, hc, rcv>>

\* Manager::process_message, Shutdown: actor->terminated = true
MgrShutTerminated(t) ==
  /\ At(t, "mshut", "terminated")
  /\ act' = [act EXCEPT ![list_at(mgr.actor_list, Top(t).i)].terminated = TRUE]
  /\ stack' = [stack EXCEPT ![t] = SetTop(@, [Top(t) EXCEPT !.pc = "end", !.i = @ + 1])]
  /\ UNCHANGED <<msgs, ginfo, msgq, fast_send_mutex, fatal, hlog, hooks, cnt, scn, mgr, rem, bq, hc, rcv>>

ShutdownNext ==
  \E t \in Threads :
    \/ MgrStart(t)
    \/ MgrSpawn(t)
    \/ MgrSelf(t)
    \/ MgrJoin(t)
    \/ WorkerInit(t)
    \/ WorkerPop(t)
    \/ WorkerCheck(t)
    \/ PmiLock(t)
    \/ PmiUnlock(t)
    \/ FsLock(t)
    \/ FsReturn(t)
    \/ FsRelock(t)
    \/ Forward(t)
    \/ FanCall(t)
    \/ FanEnd(t)
    \/ \E b \in scn.targets : ShutSend(t, b)
    \/ \E b \in scn.term : ShutTerminate(t, b)
    \/ MgrFastTerminate(t)
    \/ MgrShutEnd(t)
    \/ MgrShutFast(t)
    \/ MgrShutTerminated(t)
    \/ HandlerSkip(t)

ShutdownSpec == ShutdownInit /\ [][ShutdownNext]_vars

(***************************************************************************)
(* C36. The end hook of every actor runs at most once, whichever of the     *)
(* shutdown paths run: the exit of its worker loop, the Manager's Shutdown  *)
(* handling, and a Group's Shutdown fan-out to its members.  The code       *)
(* violates this: the Manager calls end() on an actor whose worker has      *)
(* called it already or calls it afterwards.                                *)
(***************************************************************************)
C36_EndAtMostOnce == \A a \in Actors : hooks[a].end <= 1

\* the Group's worker is scheduled, and handlers run on and return
GProgress(t) ==
  \/ WorkerInit(t)
  \/ WorkerPop(t)
  \/ WorkerCheck(t)
  \/ PmiLock(t)
  \/ PmiUnlock(t)
  \/ FsLock(t)
  \/ FsReturn(t)
  \/ Forward(t)
  \/ FanCall(t)
  \/ FanEnd(t)
  \/ HandlerSkip(t)

GroupFairSpec == GroupSpec /\ \A t \in Threads : WF_vars(GProgress(t))

(***************************************************************************)
(* C37. terminate() on one member of a Group stops the whole Group.  The    *)
(* Shutdown is queued in the Group's mailbox and nowhere else, and no       *)
(* member's handler runs for it; the Group's worker comes to dispatch it    *)
(* and to leave its loop; when it has, every member has been sent one       *)
(* Shutdown by fast_send, has handled it and has had end() called once; and *)
(* from then on nothing is popped and no handler runs, so that a message    *)
(* sent to any member stays in the mailbox.                                 *)
(***************************************************************************)
\* the Shutdowns that terminate() on a member has queued
MemberShutdowns ==
  {m \in Msgs : /\ ginfo[m].how = "terminate"
                /\ is_part_of_group(ginfo[m].to)
                /\ ginfo[m].res = "queued"}

LoopDone(t) == stack[t] # <<>> /\ stack[t][1].k = "loop" /\ stack[t][1].pc = "done"

\* the Shutdowns that member b was sent by fast_send and has handled
ShutdownsServed(b) ==
  {m \in Msgs : /\ msgs[m].id = ShutdownId /\ ginfo[m].how = "fast" /\ ginfo[m].to = b
                /\ ginfo[m].res = "returned" /\ Runs(b, m) = 1}

C37_Inv ==
  /\ \A m \in MemberShutdowns :
       /\ msgs[m].destination = ginfo[m].to
       /\ \A q \in Queued \ {"G"} : Occurrences(BQContents(msgq[q]), m) = 0
       /\ ginfo[m].pops = 0 => Occurrences(BQContents(msgq["G"]), m) = 1
       /\ \A b \in Actors : b # "G" => Runs(b, m) = 0
  /\ LoopDone("G") =>
       /\ MemberShutdowns # {}
       /\ act["G"].terminated
       /\ \A i \in 1..Len(members["G"]) :
            /\ Cardinality(ShutdownsServed(members["G"][i])) = 1
            /\ hooks[members["G"][i]].end = 1

C37_Step ==
  LoopDone("G") =>
    /\ hlog' = hlog
    /\ cnt'.popped = cnt.popped
    /\ \A b \in Actors : BQLength(msgq'[b]) >= BQLength(msgq[b])

C37_Live == (MemberShutdowns # {}) ~> LoopDone("G")

C37_MemberTerminateStopsGroup == []C37_Inv /\ [][C37_Step]_vars /\ C37_Live

\* terminate() was called on M1; the Group's loop has ended; M2 has been shut
\* down too, and a message sent to M2 afterwards waits in the mailbox
C37_Witness ==
  /\ \E m \in MemberShutdowns : ginfo[m].to = "M1"
  /\ LoopDone("G")
  /\ hooks["M2"].end = 1
  /\ \E m \in Msgs :
       /\ ginfo[m].to = "M2" /\ msgs[m].id = AppId
       /\ \E s \in MemberShutdowns : s < m
       /\ ginfo[m].res = "queued" /\ ginfo[m].pops = 0
       /\ Occurrences(BQContents(msgq["G"]), m) = 1

(***************************************************************************)
(* C38. A message sent with send() to the Group itself that is neither a    *)
(* Start nor a Shutdown takes the Group's worker, which holds the Group's   *)
(* mutex for the dispatch, through forward into process_message_internal of *)
(* the Group again: there the worker stays, the dispatch is never completed *)
(* (the message is never freed), and the worker pops nothing and runs no    *)
(* handler any more, whatever waits in the mailbox for the members.         *)
(***************************************************************************)
\* the messages sent to the Group itself
GroupMsgs ==
  {m \in Msgs : /\ ginfo[m].how = "send" /\ ginfo[m].to = "G"
                /\ msgs[m].id \notin {StartId, ShutdownId}}

\* the worker of G is in the lock of the second process_message_internal for m
Reentered(m) ==
  /\ Len(stack["G"]) = 4
  /\ stack["G"][2] = Frame("pmi", "G", m, "unlock")
  /\ stack["G"][3] = Frame("fwd", "G", m, "ret")
  /\ stack["G"][4] = [Frame("pmi", "G", m, "lock") EXCEPT !.flag = TRUE]
  /\ fast_send_mutex["G"] = "G"

C38_Inv ==
  \A m \in GroupMsgs :
    /\ msgs[m].frees = 0
    /\ msgs[m].destination = "G"
    /\ ginfo[m].pops > 0 =>
         \/ stack["G"] = <<[Frame("loop", "G", m, "check") EXCEPT !.flag = FALSE],
                           Frame("pmi", "G", m, "lock")>>
         \/ /\ Len(stack["G"]) = 3
            /\ stack["G"][2] = Frame("pmi", "G", m, "unlock")
            /\ stack["G"][3] = Frame("fwd", "G", m, "fwd")
         \/ Reentered(m)

C38_Step ==
  (\E m \in GroupMsgs : Reentered(m)) =>
    /\ stack'["G"] = stack["G"]
    /\ hlog'["G"] = hlog["G"] /\ hlog'["M1"] = hlog["M1"] /\ hlog'["M2"] = hlog["M2"]
    /\ \A m \in Msgs : ginfo'[m].pops = ginfo[m].pops \/ ginfo[m].to = "A"

C38_GroupSelfMessage == []C38_Inv /\ [][C38_Step]_vars

\* the worker of G waits in the second lock while a message for M1, sent
\* afterwards, is in the mailbox
C38_Witness ==
  \E m \in GroupMsgs :
    /\ Reentered(m)
    /\ fatal = Null
    /\ \E m2 \in Msgs :
         /\ m2 > m /\ ginfo[m2].to = "M1" /\ ginfo[m2].res = "queued"
         /\ ginfo[m2].pops = 0
         /\ Occurrences(BQContents(msgq["G"]), m2) = 1

(***************************************************************************)
(* The remote layer with a sender that no Receiver knows: application code  *)
(* of process B also passes "pang", an actor that was not registered with   *)
(* B's Receiver, as the sender.  Both readings of reply_to->send are run.   *)
(***************************************************************************)
RemoteCascadeInit ==
  /\ scn = [threads |-> {}, targets |-> {}, term |-> {}, senders |-> {}, fsenders |-> {}, max |-> 0]
  /\ msgs = <<>>
  /\ ginfo = <<>>
  /\ msgq = [a \in Actors |-> BQueue(ACTOR_BQUEUE_SIZE)]
  /\ act = [a \in Actors |-> NewActor]
  /\ fast_send_mutex = [a \in Actors |-> Null]
  /\ stack = [t \in Threads |-> <<>>]
  /\ fatal = Null
  /\ hlog = [a \in Actors |-> <<>>]
  /\ hooks = [a \in Actors |-> [init |-> 0, end |-> 0]]
  /\ cnt = [sent |-> 0, dropped |-> 0, popped |-> 0, resent |-> 0]
  /\ mgr = NewManager({}, {}, EmptyMap)
  /\ \E v \in BOOLEAN : rem = [NewRemote EXCEPT !.send_is_virtual = v]
  /\ bq = NewBQ(ACTOR_BQUEUE_SIZE)
  /\ hc = NewHandlers(<<>>)
  /\ rcv = NewReceiver

RemoteCascadeNext ==
  \/ RemoteNext
  \/ \E actor_name \in {"pong", "ghost"}, msg_id \in {PingId, OddId} :
       UserSend("ping", actor_name, msg_id, "pang")

RemoteCascadeSpec == RemoteCascadeInit /\ [][RemoteCascadeNext]_vars

(***************************************************************************)
(* C39. Rejects and proxied replies do not cascade.  Every send_to call of  *)
(* a Receiver (a Reject) and of a reply proxy has a null sender, and so has *)
(* every frame that carries a Reject or a reply; a frame without a sender   *)
(* that names an unknown receiver or cannot be decoded is dropped: no call, *)
(* no dispatch; and there are never more Rejects than frames received with  *)
(* a sender, nor than sends of application code.                            *)
(***************************************************************************)
RejectCalls == {i \in 1..Len(rem.calls) : rem.calls[i].by = "ZmqReceiver"}
NamedFrames == {i \in 1..Len(rem.frames) : has_sender(rem.frames[i].envelope)}

C39_Inv ==
  /\ \A i \in 1..Len(rem.calls) :
       rem.calls[i].by \in {"ZmqReceiver", "RemoteReplyProxy"} => rem.calls[i].sender = Null
  /\ \A p \in Procs : \A i \in 1..Len(rem.sendq[p]) :
       rem.sendq[p][i].message_type \in {"Reject", "Pong"} => rem.sendq[p][i].sender_name = ""
  /\ \A p \in Procs : \A i \in 1..Len(rem.wire[p]) :
       parse(rem.wire[p][i]).message_type \in {"Reject", "Pong"}
         => ~has_sender(parse(rem.wire[p][i]))
  /\ \A i \in 1..Len(rem.frames) :
       rem.frames[i].envelope.message_type \in {"Reject", "Pong"}
         => ~has_sender(rem.frames[i].envelope)
  /\ Cardinality(RejectCalls) <= Cardinality(NamedFrames)
  /\ Cardinality(RejectCalls) <= rem.sent

C39_Step ==
  (/\ Receives
   /\ ~has_sender(Received.envelope)
   /\ \/ Received.envelope.receiver \notin DOMAIN registry_[Received.p]
      \/ DecodeFails(Received))
    => (rem'.calls = rem.calls /\ rem'.mbox = rem.mbox /\ rem'.sendq = rem.sendq)

C39_NoCascade == []C39_Inv /\ [][C39_Step]_vars

\* with reply_to->send taken as virtual: B's Receiver has received a Reject
\* and a proxied Pong, both for "pang", which it does not know, and has sent
\* nothing
C39_Witness ==
  /\ \E i \in 1..Len(rem.frames) :
       /\ rem.frames[i].p = "B" /\ rem.frames[i].envelope.receiver = "pang"
       /\ rem.frames[i].envelope.message_type = "Reject"
  /\ \E i \in 1..Len(rem.frames) :
       /\ rem.frames[i].p = "B" /\ rem.frames[i].envelope.receiver = "pang"
       /\ rem.frames[i].envelope.message_type = "Pong"
  /\ \A i \in RejectCalls : rem.calls[i].p = "A"
  /\ rem.mbox["ping"] = <<>>

(***************************************************************************)
(* C40. handler_cache is indexed by the identity and handlers by the class. *)
(* For an identity below 512: the first dispatch of the identity fills its  *)
(* cache entry with the handler of the class dispatched, or sets its        *)
(* negative flag if that class had no handler; neither changes afterwards.  *)
(* Every later dispatch of another class of the same identity runs that     *)
(* cached handler, or process_message if the flag is set, without a lookup  *)
(* by class, and never the handler registered for its own class.            *)
(***************************************************************************)
\* the classes of identity id dispatched so far
SeenOf(id) == { t \in hc.seen : MessageIdOf[t] = id }

\* the class a handler was registered for
ClassOf(f) == f[2]

\* a dispatch of a class whose identity, below 512, was dispatched before
\* for another class, the class dispatched first being another one as well
OtherDispatched ==
  /\ Dispatched
  /\ InCache(hc'.last.id)
  /\ SeenOf(hc'.last.id) \ {hc'.last.type} # {}
  /\ hc'.last.id \in DOMAIN hc.handler_cache
       => ClassOf(hc.handler_cache[hc'.last.id]) # hc'.last.type

\* the first dispatch of an identity below 512
FirstDispatched ==
  Dispatched /\ InCache(hc'.last.id) /\ SeenOf(hc'.last.id) = {}

C40_Inv ==
  \A id \in DOMAIN hc.handler_cache \cup hc.dont_have_handler :
    /\ SeenOf(id) # {}
    /\ ~(id \in DOMAIN hc.handler_cache /\ id \in hc.dont_have_handler)
    /\ id \in DOMAIN hc.handler_cache => ClassOf(hc.handler_cache[id]) \in SeenOf(id)

C40_Step ==
  /\ FirstDispatched =>
       IF hc'.last.type \in DOMAIN hc.handlers
         THEN /\ hc'.last.id \in DOMAIN hc'.handler_cache
              /\ hc'.handler_cache[hc'.last.id] = hc.handlers[hc'.last.type]
              /\ hc'.last.id \notin hc'.dont_have_handler
         ELSE /\ hc'.last.id \in hc'.dont_have_handler
              /\ hc'.last.id \notin DOMAIN hc'.handler_cache
  /\ \A id \in DOMAIN hc.handler_cache :
       id \in DOMAIN hc'.handler_cache /\ hc'.handler_cache[id] = hc.handler_cache[id]
  /\ hc.dont_have_handler \subseteq hc'.dont_have_handler
  /\ OtherDispatched =>
       /\ ~hc'.last.find
       /\ IF hc'.last.id \in DOMAIN hc.handler_cache
            THEN /\ hc'.last.path = "cache"
                 /\ hc'.last.ran = hc.handler_cache[hc'.last.id]
            ELSE /\ hc'.last.path = "flag"
                 /\ hc'.last.ran = <<"process_message", "">>
       /\ hc'.last.type \in DOMAIN hc.handlers
            => hc'.last.ran # hc.handlers[hc'.last.type]

C40_SharedIdentity == []C40_Inv /\ [][C40_Step]_vars

\* Echo, which has a handler of its own, was dispatched after Ping and ran
\* the handler cached for Ping
C40_Witness ==
  /\ hc.last.type = "Echo" /\ hc.last.path = "cache"
  /\ hc.last.ran = <<"on", "Ping">>
  /\ "Echo" \in DOMAIN hc.handlers
  /\ hc.seen = {"Ping", "Echo"}

\* Echo, which has a handler of its own, was dispatched after Ping, which
\* has none, and ran process_message
C40_WitnessFlag ==
  /\ hc.last.type = "Echo" /\ hc.last.path = "flag"
  /\ "Echo" \in DOMAIN hc.handlers /\ "Ping" \notin DOMAIN hc.handlers
  /\ hc.seen = {"Ping", "Echo"}

=============================================================================
